---- MODULE Spec2Model ----
(***************************************************************************)
(* Inference verification gateway: the orchestrator's parallel fan-out     *)
(* (src/orchestrator/inference_manager.py), the /api/v1/inference request  *)
(* pipeline (src/main.py), the token-bucket rate limiter                   *)
(* (src/utils/rate_limiter.py), the two-tier cache over Redis              *)
(* (src/cache/semantic_cache.py), the two sandbox backends                 *)
(* (src/sandbox/executor.py, src/sandbox/subprocess_executor.py), the      *)
(* healer (src/orchestrator/healer.py) and the judge                       *)
(* (src/judge/verifier.py, src/judge/synthesizer.py).                      *)
(***************************************************************************)
EXTENDS Integers, Sequences, FiniteSets, TLC

\* The fields of the records used below, with what each holds.  Records are
\* written with their fields in this (alphabetical) order throughout.
Fields ==
    [before |-> "log: tokens at the decrement, after the refill",
     best_match |-> "get: the semantic key with the best similarity so far",
     best_score |-> "VerificationReport.details['best_score'], in 300ths",
     best_similarity |-> "get: that similarity, in hundredths",
     caller |-> "log: the coroutine whose acquire() returned",
     caught |-> "get, set: the exception caught: of redis, of encode, or none",
     code |-> "CodeBlock.code; the body of a fence",
     code_blocks |-> "ModelResponse.code_blocks",
     consensus |-> "VerificationReport.consensus",
     detail |-> "HTTPException.detail",
     embedding |-> "semantic entry: the hash field b'embedding'",
     error |-> "ModelResponse.error",
     execute_code |-> "InferenceRequest.execute_code",
     execution_config |-> "InferenceRequest.execution_config",
     execution_results |-> "ModelResponse.execution_results",
     exit_code |-> "ExecutionResult.exit_code",
     expires |-> "Redis key: the clock value at which it expires",
     fence |-> "segment of a text: a fenced block or prose",
     found |-> "what get() returned: the response, or nothing for None",
     isinstance |-> "task result: a ModelResponse or an Exception",
     keys |-> "get: the semantic keys still to be looked at",
     lang |-> "the language tag written on a fence",
     language |-> "CodeBlock.language",
     latency |-> "ModelResponse.latency",
     left |-> "log: tokens after the decrement",
     matched |-> "get: the hash field b'response' as it was when the best embedding was read",
     ok |-> "providers that answered without error",
     prompt |-> "InferenceRequest.prompt",
     provider |-> "ModelResponse.provider",
     raises |-> "the call raised to its caller",
     response |-> "the response passed to set(); the hash field b'response'",
     scores |-> "VerificationReport.details['scores'], in the order of the responses",
     selected_response |-> "synthesize: the response it returned, or nothing for None",
     source |-> "get: the Redis key the returned response was read from",
     status |-> "HTTP status code",
     stderr |-> "ExecutionResult.stderr",
     stdout |-> "ExecutionResult.stdout",
     steady |-> "get: nothing has changed on the server since it began",
     stored |-> "what set() returned",
     success |-> "ExecutionResult.success",
     successful_executions |-> "VerificationReport.successful_executions",
     synthesis_strategy |-> "VerificationReport.synthesis_strategy",
     text |-> "ModelResponse.text; the text of a reply",
     time |-> "log: the clock when acquire() returned",
     total_executions |-> "VerificationReport.total_executions",
     value |-> "task result: the object itself",
     verified |-> "VerificationReport.verified"]

\* ------------------------------------------------------------------ bounds
NumProviders == 2      \* providers that InferenceManager.__init__ configured
MaxRequests == 2       \* run_inference calls made one after the other
NumCallers == 4        \* coroutines that call acquire() on one limiter
MaxRate == 2           \* max_rate of the modelled limiter, in tokens
TicksPerToken == 2     \* clock ticks in which one token refills
MaxTime == 6           \* the clock stops here

\* --------------------------------------------------------------- constants
None == "None"

\* InferenceManager.providers, in configured order (by get_provider_name()):
\* the adapters that could be initialized, Ollama always being tried last.
ProviderNames ==
    SubSeq(<<"groq", "gemini", "openai", "huggingface">>, 1, NumProviders - 1)
    \o <<"ollama">>

Providers == 1..NumProviders

Prompts == {"Return 2+2", "Reply with OK"}

\* ---------------------------------------------------------------- replies
\* A reply text is a sequence of segments: prose, or a fenced block with the
\* raw language tag of its fence.  "" is the empty sequence.
Prose == [code |-> "words", fence |-> FALSE, lang |-> ""]

Fence(lang, code) == [code |-> code, fence |-> TRUE, lang |-> lang]

EmptyText == << >>

\* Texts a provider may answer with.
Texts ==
    { EmptyText,
      <<Prose>>,
      <<Prose, Fence("py", "print(x)")>>,
      <<Fence("rust", "fn main"), Fence("python", "print(4)")>> }

\* ------------------------------------------------------------- variables
VARIABLES
    request,          \* the InferenceRequest being served: prompt, execute_code
    stage,            \* position of the endpoint / of run_inference
    task,             \* per provider: position of its _run_provider_inference
    call,             \* per provider: state of its generate_completion call
    results,          \* per provider: what its task returned to gather
    finished,         \* providers in the order their tasks completed
    model_responses,  \* the list run_inference returned
    http,             \* the endpoint's answer: status and detail
    cursor,           \* <<response index, block index>> of the running loop
    sandbox_available,\* sandbox_executor is not None
    acquired,         \* per provider: acquire() was called in the running unit
    prev,             \* the preceding run_inference: prompt and who succeeded
    nreq,             \* run_inference calls started so far
    executed,         \* history, per response and result index: <<the block
                      \* that was executed, the result that came back>>
    healing,          \* history: <<response, index, reply, adapter called>>
                      \* per heal_code call
    invoked,          \* per provider: generate_completion calls of this run_inference
    attempts,         \* per provider: attempts the adapter made inside its call
    \* AsyncRateLimiter (one bucket) and the coroutines calling acquire()
    now,              \* time.monotonic(), in ticks
    tokens,           \* self.tokens, in units of 1/TicksPerToken token
    last_update,      \* self.last_update
    lock_holder,      \* the caller inside "async with self._lock", or 0
    waiters,          \* the lock's FIFO queue of suspended callers
    rl_pc,            \* per caller: position in acquire()
    wake_at,          \* per caller: when its asyncio.sleep(wait_time) is due
    log,              \* one record per acquire() that has returned
    \* SemanticCache, the Redis server behind it and the processes using it
    redis_client,     \* self.redis_client is not None
    model,            \* self.model is not None
    clock,            \* the Redis server's time, in ticks
    strings,          \* Redis string keys: the exact tier
    hashes,           \* Redis hash keys: the semantic tier
    cache_pc,         \* per client: position in get() / set()
    cache_args,       \* per client: prompt, provider, response of its call
    scan,             \* per client: the state of get()'s loop over keys
    pipe,             \* per client: commands queued on set()'s pipeline
    issued,           \* per client: Redis commands sent by its call so far
    ret,              \* per client: what its last call returned
    set_at,           \* per (provider, prompt): clock and response of the
                      \* last set() that returned True, nothing written since
    nsets,            \* set() calls started so far
    writers,          \* the processes that call set()
    readers,          \* the processes that call get()
    \* a sandbox backend, one execute_code call at a time
    sb_backend,       \* the class of sandbox_executor: "docker" or "subprocess"
    cleanup_containers, \* settings.cleanup_containers
    sb_pc,            \* position of the execute_code call
    sb_language,      \* code_block.language of the call
    temp_file,        \* the temp file of the call: none, exists, deleted
    container,        \* the container of the call: none, running, exited, removed
    process,          \* the child of the call: none, running, exited, killed
    sb_status,        \* StatusCode / returncode of the program once it exited
    sb_elapsed,       \* ticks the call has waited for the program
    timed_out,        \* the wait of the call ran out
    sb_outcome,       \* what the call gave its caller
    nexec,            \* execute_code calls started so far
    left_running,     \* containers of earlier calls that are still running
    \* Synthesizer.synthesize, one call
    responses,        \* the list of ModelResponse it is called with
    verify,           \* its verify argument
    synthesized,      \* what it returned: selected response and report
    \* CodeExtractor.extract_code_blocks, one call on a text of fenced blocks
    given,            \* the blocks the text was written from
    parsed            \* what the call returned

orchVars == <<request, stage, task, call, results, finished, model_responses,
              http, cursor, sandbox_available, acquired, prev, nreq,
              executed, healing, invoked, attempts>>

rlVars == <<now, tokens, last_update, lock_holder, waiters, rl_pc, wake_at, log>>

cacheVars == <<redis_client, model, clock, strings, hashes,
               cache_pc, cache_args, scan, pipe, issued, ret, set_at, nsets,
               writers, readers>>

sandboxVars == <<sb_backend, cleanup_containers, sb_pc, sb_language, temp_file,
                 container, process, sb_status, sb_elapsed, timed_out,
                 sb_outcome, nexec, left_running>>

judgeVars == <<responses, verify, synthesized>>

vars == <<orchVars, rlVars, cacheVars, sandboxVars, judgeVars, given, parsed>>

\* ------------------------------------------------------- ModelResponse
\* latency = time.time() - start_time around an awaited network call: positive.
Elapsed == 1

ModelResponse(p, text, latency, error) ==
    [code_blocks |-> << >>, error |-> error, execution_results |-> << >>,
     latency |-> latency, provider |-> ProviderNames[p], text |-> text]

\* What a task hands to gather: a returned ModelResponse or a raised exception.
Returned(resp) == [isinstance |-> "ModelResponse", value |-> resp]

Raised(p, what) == [isinstance |-> "Exception", value |-> ModelResponse(p, EmptyText, Elapsed, what)]

\* ------------------------------------------- _run_provider_inference
\* The success path: the response built from result["text"].
SuccessResponse(p, text) == ModelResponse(p, text, Elapsed, None)

\* except asyncio.TimeoutError: the task returns an error-tagged response.
OutcomeOnTimeout(p) == Returned(ModelResponse(p, EmptyText, Elapsed, "timed out"))

\* Faulty variants of OutcomeOnFailure: the exception leaves the task; the error
\* response keeps a text.
OutcomeOnFailureRaises(p) == Raised(p, "failed")

OutcomeOnFailureKeepsText(p) == Returned(ModelResponse(p, <<Prose>>, Elapsed, "failed"))

\* except Exception: the task returns an error-tagged response.
OutcomeOnFailure(p) == Returned(ModelResponse(p, EmptyText, Elapsed, "failed"))

\* Faulty variant of CancelledOnTimeout: an expiry cancels every call in flight.
CancelledOnTimeoutAll(p) == Providers

\* asyncio.wait_for cancels the call it awaits, and only that one, on expiry.
CancelledOnTimeout(p) == {p}

\* Faulty variant of GatherResults: results in completion order.
GatherResultsAsCompleted(res, order) == [i \in 1..NumProviders |-> res[order[i]][1]]

\* asyncio.gather(*tasks, return_exceptions=True): one result per task, in the
\* order of the tasks, that is of self.providers.
GatherResults(res, order) == [i \in 1..NumProviders |-> res[i][1]]

\* for result in results: if isinstance(result, ModelResponse): append.
RECURSIVE CollectResponses(_)
CollectResponses(rs) ==
    IF rs = << >> THEN << >>
    ELSE (IF Head(rs).isinstance = "ModelResponse" THEN <<Head(rs).value>> ELSE << >>)
         \o CollectResponses(Tail(rs))

\* gather returns when every task has completed.
AllTasksDone == \A p \in Providers : task[p] = "done"

NoRequest == [execute_code |-> FALSE, execution_config |-> None, prompt |-> None]

NoAnswer == [detail |-> None, status |-> 0]

NoPrev == [ok |-> {}, prompt |-> None]

OrchInit ==
    /\ request = NoRequest
    /\ stage = "idle"
    /\ task = [p \in Providers |-> "none"]
    /\ call = [p \in Providers |-> "none"]
    /\ results = [p \in Providers |-> << >>]
    /\ finished = << >>
    /\ model_responses = << >>
    /\ http = NoAnswer
    /\ cursor = <<1, 1>>
    /\ acquired = [p \in Providers |-> FALSE]
    /\ prev = NoPrev
    /\ nreq = 0
    /\ executed = << >>
    /\ healing = << >>
    /\ invoked = [p \in Providers |-> 0]
    /\ attempts = [p \in Providers |-> 0]

\* run_inference is entered: one task per provider is created for gather.
StartRequest(prompt, execute_code, execution_config) ==
    /\ stage = "idle"
    /\ nreq < MaxRequests
    /\ request' = [execute_code |-> execute_code,
                    execution_config |-> execution_config, prompt |-> prompt]
    /\ stage' = "fanout"
    /\ task' = [p \in Providers |-> "created"]
    /\ call' = [p \in Providers |-> "none"]
    /\ results' = [p \in Providers |-> << >>]
    /\ finished' = << >>
    /\ model_responses' = << >>
    /\ http' = NoAnswer
    /\ cursor' = <<1, 1>>
    /\ acquired' = [p \in Providers |-> FALSE]
    /\ nreq' = nreq + 1
    /\ executed' = << >>
    /\ healing' = << >>
    /\ invoked' = [p \in Providers |-> 0]
    /\ attempts' = [p \in Providers |-> 0]
    /\ UNCHANGED <<sandbox_available, prev>>
    /\ UNCHANGED <<rlVars, cacheVars, sandboxVars, judgeVars, given, parsed>>

\* Faulty variant of StopAfterAttempt: the adapter goes on to a fifth attempt.
StopAfterAttemptFive(p) == 5

\* @retry(stop=stop_after_attempt(3), ...) on generate_completion of the Groq,
\* Gemini, OpenAI and HuggingFace adapters; stop_after_attempt(2) on Ollama's.
StopAfterAttempt(p) == IF ProviderNames[p] = "ollama" THEN 2 ELSE 3

\* An attempt of the adapter failed and was not its last: after the wait the
\* adapter tries again, inside the same generate_completion call.
AttemptFails(p) ==
    /\ stage = "fanout"
    /\ call[p] = "inflight"
    /\ attempts[p] < StopAfterAttempt(p)
    /\ attempts' = [attempts EXCEPT ![p] = @ + 1]
    /\ UNCHANGED <<request, stage, task, call, results, finished, model_responses,
                   http, cursor, sandbox_available, acquired, prev, nreq,
                   executed, healing, invoked>>
    /\ UNCHANGED <<rlVars, cacheVars, sandboxVars, judgeVars, given, parsed>>

\* The task runs to its first await: provider.generate_completion under
\* asyncio.wait_for.  Nothing precedes the call.
TaskStart(p) ==
    /\ stage = "fanout"
    /\ task[p] = "created"
    /\ task' = [task EXCEPT ![p] = "awaiting"]
    /\ call' = [call EXCEPT ![p] = "inflight"]
    /\ invoked' = [invoked EXCEPT ![p] = @ + 1]
    /\ attempts' = [attempts EXCEPT ![p] = 1]
    /\ UNCHANGED <<request, stage, results, finished, model_responses, http,
                   cursor, sandbox_available, acquired, prev, nreq>>
    /\ UNCHANGED <<executed, healing>>
    /\ UNCHANGED <<rlVars, cacheVars, sandboxVars, judgeVars, given, parsed>>

TaskEnds(p, outcome, callstate) ==
    /\ stage = "fanout"
    /\ task[p] = "awaiting"
    /\ call[p] = "inflight"
    /\ task' = [task EXCEPT ![p] = "done"]
    /\ call' = [q \in Providers |->
                  IF q = p THEN callstate
                  ELSE IF callstate = "cancelled" /\ q \in CancelledOnTimeout(p)
                          /\ call[q] = "inflight"
                       THEN "cancelled" ELSE call[q]]
    /\ results' = [results EXCEPT ![p] = <<outcome>>]
    /\ finished' = Append(finished, p)
    /\ attempts' = IF callstate = "raised"
                   THEN [attempts EXCEPT ![p] = StopAfterAttempt(p)]
                   ELSE attempts
    /\ UNCHANGED <<request, stage, model_responses, http, cursor,
                   sandbox_available, acquired, prev, nreq>>
    /\ UNCHANGED <<executed, healing, invoked>>
    /\ UNCHANGED <<rlVars, cacheVars, sandboxVars, judgeVars, given, parsed>>

\* generate_completion returned a dict with a text.
ProviderReturns(p, text) == TaskEnds(p, Returned(SuccessResponse(p, text)), "returned")

\* generate_completion returned something result["text"] or ModelResponse
\* rejects (KeyError, validation error): caught by except Exception.
ProviderReturnsMalformed(p) == TaskEnds(p, OutcomeOnFailure(p), "returned")

\* generate_completion raised: the adapter's last attempt has failed, and
\* with it every attempt before it (tenacity's RetryError).
ProviderRaises(p) == TaskEnds(p, OutcomeOnFailure(p), "raised")

\* request_timeout expired: wait_for cancels the call and raises TimeoutError.
ProviderTimesOut(p) == TaskEnds(p, OutcomeOnTimeout(p), "cancelled")

\* gather has every result; run_inference filters them and returns.
RunInferenceReturn ==
    /\ stage = "fanout"
    /\ AllTasksDone
    /\ model_responses' = CollectResponses(GatherResults(results, finished))
    /\ stage' = "gathered"
    /\ UNCHANGED <<request, task, call, results, finished, http, cursor,
                   sandbox_available, acquired, prev, nreq>>
    /\ UNCHANGED <<executed, healing, invoked, attempts>>
    /\ UNCHANGED <<rlVars, cacheVars, sandboxVars, judgeVars, given, parsed>>

\* The caller of run_inference has its list and later calls again.
Succeeded(p) ==
    /\ results[p] # << >>
    /\ results[p][1].isinstance = "ModelResponse"
    /\ results[p][1].value.error = None

NextCall ==
    /\ stage = "gathered"
    /\ stage' = "idle"
    /\ prev' = [ok |-> {p \in Providers : Succeeded(p)}, prompt |-> request.prompt]
    /\ UNCHANGED <<request, task, call, results, finished, model_responses,
                   http, cursor, sandbox_available, acquired, nreq>>
    /\ UNCHANGED <<executed, healing, invoked, attempts>>
    /\ UNCHANGED <<rlVars, cacheVars, sandboxVars, judgeVars, given, parsed>>

FanOut ==
    \/ \E prompt \in Prompts, e \in BOOLEAN,
          config \in {"CodeExecutionConfig", None} : StartRequest(prompt, e, config)
    \/ \E p \in Providers : TaskStart(p)
    \/ \E p \in Providers, t \in Texts : ProviderReturns(p, t)
    \/ \E p \in Providers : ProviderReturnsMalformed(p)
    \/ \E p \in Providers : ProviderRaises(p)
    \/ \E p \in Providers : ProviderTimesOut(p)
    \/ RunInferenceReturn


\* ------------------------------------------------------ CodeExtractor
\* language.lower().strip() on the fence tags that occur in Texts.
Lower(lang) ==
    CASE lang = "Python" -> "python"
      [] lang = "PY" -> "py"
      [] OTHER -> lang

\* _normalize_language: lower-case, then language_map.get(language, language).
NormalizeLanguage(lang) ==
    LET l == Lower(lang) IN
    CASE l = "py" -> "python"
      [] l = "js" -> "javascript"
      [] l = "ts" -> "typescript"
      [] l = "sh" -> "bash"
      [] l = "shell" -> "bash"
      [] l = "node" -> "javascript"
      [] OTHER -> l

CodeBlock(language, code) == [code |-> code, language |-> language]

\* extract_code_blocks: one CodeBlock per fence, in order of appearance;
\* match.group(1) or 'unknown', normalised.
RECURSIVE ExtractCodeBlocks(_)
ExtractCodeBlocks(text) ==
    IF text = << >> THEN << >>
    ELSE (IF Head(text).fence
          THEN <<CodeBlock(NormalizeLanguage(IF Head(text).lang = "" THEN "unknown"
                                             ELSE Head(text).lang),
                           Head(text).code)>>
          ELSE << >>)
         \o ExtractCodeBlocks(Tail(text))

Executable == {"python", "javascript", "bash"}

IsExecutable(block) == block.language \in Executable

\* Faulty variant of FilterExecutableBlocks: nothing is filtered out.
FilterExecutableBlocksKeepsAll(blocks) == blocks

\* filter_executable_blocks: the blocks whose language is executable, in order.
FilterExecutableBlocks(blocks) == SelectSeq(blocks, IsExecutable)

\* ------------------------------------------- the extractor, piece by piece
\* extract_code_blocks on a text written out as a sequence of pieces: a
\* backtick ("tick"), a newline, a blank, a sign, or a word (a maximal run of letters,
\* digits and underscores: no two words are adjacent).  A CodeBlock's code is
\* such a sequence too.
MaxLen == 2            \* blocks in a text, and pieces of code in all of them

\* A list of blocks as a text: per block the opening fence, the tag (absent,
\* a word, or c++, which is a word and two signs), a newline, the code and
\* the closing fence; a newline between two blocks.
RECURSIVE Render(_)
Render(blocks) ==
    IF blocks = << >> THEN << >>
    ELSE <<"tick", "tick", "tick">>
         \o (CASE Head(blocks).language = "" -> << >>
               [] Head(blocks).language = "c++" -> <<"c", "+", "+">>
               [] OTHER -> <<Head(blocks).language>>)
         \o <<"\n">>
         \o Head(blocks).code \o <<"tick", "tick", "tick">>
         \o (IF Len(blocks) > 1 THEN <<"\n">> ELSE << >>)
         \o Render(Tail(blocks))

\* Faulty variant of CodeFencePattern: r'(fence)(\w+)?\n(.*)(fence)', the greedy body.
CodeFencePatternGreedy(text, i) ==
    LET fence(j) == j + 2 <= Len(text) /\ \A d \in 0..2 : text[j + d] = "tick"
        k == IF i + 3 <= Len(text) /\ text[i + 3] \notin {"tick", "\n", " ", "+"}
             THEN 1 ELSE 0
        nl == i + 3 + k
        closes == {j \in (nl + 1)..Len(text) : fence(j)}
    IN  IF fence(i) /\ nl <= Len(text) /\ text[nl] = "\n" /\ closes # {}
        THEN LET j == CHOOSE c \in closes : \A o \in closes : o <= c
             IN  <<IF k = 1 THEN text[i + 3] ELSE None, SubSeq(text, nl + 1, j - 1), j + 3>>
        ELSE << >>

\* CODE_FENCE_PATTERN = r'(fence)(\w+)?\n(.*?)(fence)' with DOTALL, matched at
\* position i: << >> when it does not match there, else <<group(1), group(2),
\* match.end()>>.  \w+ takes the whole word after the fence or the group is
\* skipped, a newline must follow, and the lazy body ends at the first fence
\* after it.
CodeFencePattern(text, i) ==
    LET fence(j) == j + 2 <= Len(text) /\ \A d \in 0..2 : text[j + d] = "tick"
        k == IF i + 3 <= Len(text) /\ text[i + 3] \notin {"tick", "\n", " ", "+"}
             THEN 1 ELSE 0
        nl == i + 3 + k
        closes == {j \in (nl + 1)..Len(text) : fence(j)}
    IN  IF fence(i) /\ nl <= Len(text) /\ text[nl] = "\n" /\ closes # {}
        THEN LET j == CHOOSE c \in closes : \A o \in closes : c <= o
             IN  <<IF k = 1 THEN text[i + 3] ELSE None, SubSeq(text, nl + 1, j - 1), j + 3>>
        ELSE << >>

\* extract_code_blocks from position pos on: finditer goes through the
\* matches from left to right, each search starting where the last match
\* ended; per match language = group(1) or 'unknown', normalised, and
\* code = group(2).strip().
RECURSIVE ExtractCodeBlocksFrom(_, _)
ExtractCodeBlocksFrom(text, pos) ==
    IF pos > Len(text) THEN << >>
    ELSE LET match == CodeFencePattern(text, pos) IN
         IF match = << >> THEN ExtractCodeBlocksFrom(text, pos + 1)
         ELSE LET body == match[2]
                  inner == {j \in 1..Len(body) : body[j] \notin {" ", "\n"}}
                  code == IF inner = {} THEN << >>
                          ELSE SubSeq(body,
                                      CHOOSE a \in inner : \A o \in inner : a <= o,
                                      CHOOSE z \in inner : \A o \in inner : o <= z)
                  language == NormalizeLanguage(IF match[1] = None THEN "unknown"
                                                ELSE match[1])
              IN  <<CodeBlock(language, code)>> \o ExtractCodeBlocksFrom(text, match[3])

ExtractorUnused == given = << >> /\ parsed = << >>

\* extract_code_blocks(text) returns, text being the given blocks written out.
ExtractCall ==
    /\ parsed = << >>
    /\ parsed' = <<ExtractCodeBlocksFrom(Render(given), 1)>>
    /\ UNCHANGED given
    /\ UNCHANGED <<orchVars, rlVars, cacheVars, sandboxVars, judgeVars>>

\* ------------------------------------------------------------ sandbox
\* What execute_code hands back to the endpoint for an executable block.
ExecOk == [exit_code |-> 0, stderr |-> "", stdout |-> "4", success |-> TRUE]

ExecNameError == [exit_code |-> 1, stderr |-> "NameError", stdout |-> "", success |-> FALSE]

ExecSilentFail == [exit_code |-> 1, stderr |-> "", stdout |-> "", success |-> FALSE]

SandboxResults == {ExecOk, ExecNameError, ExecSilentFail}

\* ----------------------------------------------------------- endpoint
\* if response.text and not response.error
ShouldExtract(r) == r.text # EmptyText /\ r.error = None

\* Step 2 for one response.
Extracted(r) ==
    IF ShouldExtract(r)
    THEN [r EXCEPT !.code_blocks = FilterExecutableBlocks(ExtractCodeBlocks(r.text))]
    ELSE r

\* if not model_responses: raise HTTPException(503, "All LLM providers failed")
NoResponses(resps) == Len(resps) = 0

\* Faulty variant of ExtractStep: the blocks are extracted whatever execute_code says.
ExtractStepAlways ==
    /\ stage = "gathered"
    /\ IF NoResponses(model_responses)
       THEN /\ http' = [detail |-> "All LLM providers failed", status |-> 503]
            /\ stage' = "responded"
            /\ UNCHANGED model_responses
       ELSE /\ model_responses' =
                 [i \in 1..Len(model_responses) |-> Extracted(model_responses[i])]
            /\ stage' = IF sandbox_available THEN "executing" ELSE "synthesis"
            /\ UNCHANGED http
    /\ cursor' = <<1, 1>>
    /\ executed' = [r \in 1..Len(model_responses) |-> << >>]
    /\ UNCHANGED <<request, task, call, results, finished, sandbox_available,
                   acquired, prev, nreq, healing, invoked, attempts>>
    /\ UNCHANGED <<rlVars, cacheVars, sandboxVars, judgeVars, given, parsed>>

\* Steps 1 (check) and 2: the 503 answer, or extraction over every response.
ExtractStep ==
    /\ stage = "gathered"
    /\ IF NoResponses(model_responses)
       THEN /\ http' = [detail |-> "All LLM providers failed", status |-> 503]
            /\ stage' = "responded"
            /\ UNCHANGED model_responses
       ELSE /\ model_responses' =
                 IF request.execute_code
                 THEN [i \in 1..Len(model_responses) |-> Extracted(model_responses[i])]
                 ELSE model_responses
            /\ stage' = IF sandbox_available THEN "executing" ELSE "synthesis"
            /\ UNCHANGED http
    /\ cursor' = <<1, 1>>
    /\ executed' = [r \in 1..Len(model_responses) |-> << >>]
    /\ UNCHANGED <<request, task, call, results, finished, sandbox_available,
                   acquired, prev, nreq, healing, invoked, attempts>>
    /\ UNCHANGED <<rlVars, cacheVars, sandboxVars, judgeVars, given, parsed>>

\* for response in model_responses: for code_block in response.code_blocks:
\* the next position of the double loop at or after <<r, b>>.
RECURSIVE NextBlock(_, _, _)
NextBlock(resps, r, b) ==
    IF r > Len(resps) THEN <<r, 1>>
    ELSE IF b <= Len(resps[r].code_blocks) THEN <<r, b>>
    ELSE NextBlock(resps, r + 1, 1)

\* Step 3, one iteration: execute the block, append its result.  Reading
\* request.execution_config.timeout of a request sent with execution_config
\* null raises inside the try: the except logs, nothing is appended.
ExecuteBlock(res) ==
    /\ stage = "executing"
    /\ LET at == NextBlock(model_responses, cursor[1], cursor[2]) IN
       /\ at[1] <= Len(model_responses)
       /\ IF request.execution_config = None
          THEN UNCHANGED <<model_responses, executed>>
          ELSE /\ model_responses' =
                    [model_responses EXCEPT ![at[1]].execution_results = Append(@, res)]
               /\ executed' =
                    [executed EXCEPT ![at[1]] =
                        Append(@, <<model_responses[at[1]].code_blocks[at[2]], res>>)]
       /\ cursor' = <<at[1], at[2] + 1>>
    /\ UNCHANGED <<request, stage, task, call, results, finished, http,
                   sandbox_available, acquired, prev, nreq, healing,
                   invoked, attempts>>
    /\ UNCHANGED <<rlVars, cacheVars, sandboxVars, judgeVars, given, parsed>>

\* Step 3 is over: the healing loop starts.
SandboxDone ==
    /\ stage = "executing"
    /\ NextBlock(model_responses, cursor[1], cursor[2])[1] > Len(model_responses)
    /\ stage' = "healing"
    /\ cursor' = <<1, 1>>
    /\ UNCHANGED <<request, task, call, results, finished, model_responses,
                   http, sandbox_available, acquired, prev, nreq>>
    /\ UNCHANGED <<executed, healing, invoked, attempts>>
    /\ UNCHANGED <<rlVars, cacheVars, sandboxVars, judgeVars, given, parsed>>

\* Faulty variant of NeedsHealing: every failed result is healed.
NeedsHealingAnyFailure(res) == ~res.success

\* if not result.success and result.stderr
NeedsHealing(res) == ~res.success /\ res.stderr # ""

\* for i, result in enumerate(response.execution_results): the next index at
\* or after <<r, i>> whose result needs healing.
RECURSIVE NextFailure(_, _, _)
NextFailure(resps, r, i) ==
    IF r > Len(resps) THEN <<r, 1>>
    ELSE IF i > Len(resps[r].execution_results) THEN NextFailure(resps, r + 1, 1)
    ELSE IF NeedsHealing(resps[r].execution_results[i]) THEN <<r, i>>
    ELSE NextFailure(resps, r, i + 1)

\* Faulty variant of ProviderInstance: the first adapter, whatever the name.
ProviderInstanceFirst(name) == 1

\* next(p for p in providers if p.get_provider_name() == response.provider)
ProviderInstance(name) ==
    LET ps == {p \in Providers : ProviderNames[p] = name} IN
    IF ps = {} THEN 0 ELSE CHOOSE p \in ps : \A q \in ps : p <= q

\* Healer.heal_code: None when the call raises, the reply is empty or holds no
\* executable block; otherwise the code of the first executable block.
HealReplies ==
    {[raises |-> TRUE, text |-> EmptyText]}
    \cup {[raises |-> FALSE, text |-> t] :
            t \in Texts \cup {<<Fence("js", "console.log(4)")>>}}

\* Faulty variant of HealCode: a reply without an executable block gives a fix.
HealCodeNeverNone(reply) ==
    IF reply.raises THEN None
    ELSE IF reply.text = EmptyText THEN None
    ELSE LET blocks == FilterExecutableBlocks(ExtractCodeBlocks(reply.text)) IN
         IF blocks # << >> THEN blocks[1].code ELSE "pass"

HealCode(reply) ==
    IF reply.raises THEN None
    ELSE IF reply.text = EmptyText THEN None
    ELSE LET blocks == FilterExecutableBlocks(ExtractCodeBlocks(reply.text)) IN
         IF blocks # << >> THEN blocks[1].code ELSE None

\* Faulty variant of Healed: the result is replaced, the block is not.
HealedResultOnly(resps, r, i, new_block, new_result) ==
    [resps EXCEPT ![r].execution_results[i] = new_result]

\* Faulty variant of Healed: the block is replaced, the result is not.
HealedBlockOnly(resps, r, i, new_block, new_result) ==
    [resps EXCEPT ![r].code_blocks[i] = new_block]

\* response.code_blocks[i] = new_block
\* response.execution_results[i] = new_result
Healed(resps, r, i, new_block, new_result) ==
    [resps EXCEPT ![r].code_blocks[i] = new_block,
                  ![r].execution_results[i] = new_result]

\* Step 3.5, one failing index: heal, re-execute, replace in place.  The new
\* block is CodeBlock(language="python", code=fixed_code) whatever the fence
\* of the fix said; an exception of the re-execution is logged and the pair
\* stays as it was.
HealStep(reply, res) ==
    /\ stage = "healing"
    /\ LET at == NextFailure(model_responses, cursor[1], cursor[2]) IN
       /\ at[1] <= Len(model_responses)
       /\ LET response == model_responses[at[1]]
              i == at[2]
              called == ProviderInstance(response.provider) # 0
                        /\ i <= Len(response.code_blocks)
              fixed == HealCode(reply)
              new_block == CodeBlock("python", fixed)
              replaced == called /\ fixed # None
                          /\ request.execution_config # None
          IN /\ model_responses' =
                  IF replaced
                  THEN Healed(model_responses, at[1], i, new_block, res)
                  ELSE model_responses
             /\ executed' =
                  IF replaced
                  THEN [executed EXCEPT ![at[1]][i] = <<new_block, res>>]
                  ELSE executed
             /\ healing' =
                  IF called
                  THEN Append(healing, <<at[1], i, reply,
                                         ProviderInstance(response.provider)>>)
                  ELSE healing
       /\ cursor' = <<at[1], at[2] + 1>>
    /\ UNCHANGED <<request, stage, task, call, results, finished, http,
                   sandbox_available, acquired, prev, nreq, invoked, attempts>>
    /\ UNCHANGED <<rlVars, cacheVars, sandboxVars, judgeVars, given, parsed>>

HealingDone ==
    /\ stage = "healing"
    /\ NextFailure(model_responses, cursor[1], cursor[2])[1] > Len(model_responses)
    /\ stage' = "synthesis"
    /\ cursor' = <<1, 1>>
    /\ UNCHANGED <<request, task, call, results, finished, model_responses,
                   http, sandbox_available, acquired, prev, nreq>>
    /\ UNCHANGED <<executed, healing, invoked, attempts>>
    /\ UNCHANGED <<rlVars, cacheVars, sandboxVars, judgeVars, given, parsed>>

\* The InferenceResponse is returned: HTTP 200.
Respond ==
    /\ stage = "synthesis"
    /\ stage' = "responded"
    /\ http' = [detail |-> None, status |-> 200]
    /\ UNCHANGED <<request, task, call, results, finished, model_responses,
                   cursor, sandbox_available, acquired, prev, nreq>>
    /\ UNCHANGED <<executed, healing, invoked, attempts>>
    /\ UNCHANGED <<rlVars, cacheVars, sandboxVars, judgeVars, given, parsed>>

Pipeline ==
    \/ ExtractStep
    \/ \E res \in SandboxResults : ExecuteBlock(res)
    \/ SandboxDone
    \/ \E reply \in HealReplies, res \in SandboxResults : HealStep(reply, res)
    \/ HealingDone
    \/ Respond

\* ---------------------------------------------------- AsyncRateLimiter
\* Time is counted in ticks; one token refills in TicksPerToken ticks, so
\* time_period = MaxRate * TicksPerToken ticks and tokens are kept in units of
\* 1/TicksPerToken token: a whole token is TicksPerToken units.
Callers == 1..NumCallers

\* self.max_rate, in token units.
Capacity == MaxRate * TicksPerToken

Min(a, b) == IF a < b THEN a ELSE b

\* Faulty variants of Refill: last_update is left behind; the cap is forgotten.
RefillStaleClock(tok, lu, t) ==
    IF t - lu > 0 THEN <<Min(Capacity, tok + (t - lu)), lu>> ELSE <<tok, lu>>

RefillUncapped(tok, lu, t) ==
    IF t - lu > 0 THEN <<tok + (t - lu), t>> ELSE <<tok, lu>>

\* new_tokens = time_passed * (max_rate / time_period); if new_tokens > 0:
\* tokens = min(max_rate, tokens + new_tokens); last_update = now.
\* The pair <<tokens, last_update>> after the refill.
Refill(tok, lu, t) ==
    IF t - lu > 0
    THEN <<Min(Capacity, tok + (t - lu)), t>>
    ELSE <<tok, lu>>

\* if self.tokens >= 1
HasToken(tok) == tok >= TicksPerToken

\* self.tokens -= 1
Consume(tok) == tok - TicksPerToken

\* wait_time = (1 - self.tokens) * (self.time_period / self.max_rate)
WaitTime(tok) == TicksPerToken - tok

\* Faulty variant of LockFree: acquire() runs its loop without the lock.
LockIgnored == TRUE

\* asyncio.Lock.acquire takes the lock at once only when it is unlocked and
\* nobody is queued for it.
LockFree == lock_holder = 0

\* Faulty variant of Released: the lock is still held after acquire() returned.
ReleasedKeepsLock(c) == c

\* asyncio.Lock.release: unlocked; the first waiter is woken.
Released(c) == 0

RLInit ==
    /\ now = 0
    /\ tokens = Capacity
    /\ last_update = 0
    /\ lock_holder = 0
    /\ waiters = << >>
    /\ rl_pc = [c \in Callers |-> "idle"]
    /\ wake_at = [c \in Callers |-> 0]
    /\ log = << >>

\* One pass of the "while True" body by caller c, holding the lock: refill,
\* then either take a token and return (releasing the lock) or go to sleep.
LoopIteration(c) ==
    LET r == Refill(tokens, last_update, now) IN
    /\ last_update' = r[2]
    /\ IF HasToken(r[1])
       THEN /\ tokens' = Consume(r[1])
            /\ rl_pc' = [rl_pc EXCEPT ![c] = "done"]
            /\ lock_holder' = Released(c)
            /\ log' = Append(log, [before |-> r[1], caller |-> c,
                                   left |-> Consume(r[1]), time |-> now])
            /\ UNCHANGED wake_at
       ELSE /\ tokens' = r[1]
            /\ rl_pc' = [rl_pc EXCEPT ![c] = "sleeping"]
            /\ lock_holder' = c
            /\ wake_at' = [wake_at EXCEPT ![c] = now + WaitTime(r[1])]
            /\ UNCHANGED log

\* acquire() is called and the lock is free: the caller enters at once.
AcquireEnter(c) ==
    /\ rl_pc[c] = "idle"
    /\ LockFree /\ waiters = << >>
    /\ LoopIteration(c)
    /\ UNCHANGED <<now, waiters>>
    /\ UNCHANGED <<orchVars, cacheVars, sandboxVars, judgeVars, given, parsed>>

\* acquire() is called and the lock is taken or queued for: the caller queues.
AcquireQueue(c) ==
    /\ rl_pc[c] = "idle"
    /\ ~(LockFree /\ waiters = << >>)
    /\ rl_pc' = [rl_pc EXCEPT ![c] = "waiting"]
    /\ waiters' = Append(waiters, c)
    /\ UNCHANGED <<now, tokens, last_update, lock_holder, wake_at, log>>
    /\ UNCHANGED <<orchVars, cacheVars, sandboxVars, judgeVars, given, parsed>>

\* The lock was released: the first waiter resumes, holds it and enters.
WaiterResumes(c) ==
    /\ rl_pc[c] = "waiting"
    /\ LockFree
    /\ waiters # << >> /\ Head(waiters) = c
    /\ waiters' = Tail(waiters)
    /\ LoopIteration(c)
    /\ UNCHANGED now
    /\ UNCHANGED <<orchVars, cacheVars, sandboxVars, judgeVars, given, parsed>>

\* asyncio.sleep(wait_time) is over: the holder goes round the loop again.
WakeUp(c) ==
    /\ rl_pc[c] = "sleeping"
    /\ now >= wake_at[c]
    /\ LoopIteration(c)
    /\ UNCHANGED <<now, waiters>>
    /\ UNCHANGED <<orchVars, cacheVars, sandboxVars, judgeVars, given, parsed>>

\* The monotonic clock advances.
Tick ==
    /\ now < MaxTime
    /\ now' = now + 1
    /\ UNCHANGED <<tokens, last_update, lock_holder, waiters, rl_pc, wake_at, log>>
    /\ UNCHANGED <<orchVars, cacheVars, sandboxVars, judgeVars, given, parsed>>

RateLimiter ==
    \/ \E c \in Callers : AcquireEnter(c)
    \/ \E c \in Callers : AcquireQueue(c)
    \/ \E c \in Callers : WaiterResumes(c)
    \/ \E c \in Callers : WakeUp(c)
    \/ Tick

\* ------------------------------------------------------- SemanticCache
\* One Redis server, used through SemanticCache by the processes of Clients.  A
\* call of get() or set() is a sequence of Redis commands; the commands of
\* different processes interleave.  Bytes are sequences; Redis's None and
\* b"" are both the empty sequence, as the code only tests them for truth.
MaxSets == 2           \* set() calls started in all
MaxClock == 2          \* the server's clock stops here

\* Two processes share the server.
Clients == {1, 2}

\* get_cache() builds SemanticCache(redis_url=redis_url): self.ttl and
\* self.similarity_threshold are the defaults of __init__; settings.cache_ttl
\* and settings.cache_similarity_threshold are read nowhere.
\* ttl=3600 of SemanticCache.__init__, in ticks of 1800 s.
DefaultTtl == 2

\* similarity_threshold=0.95 of SemanticCache.__init__, in hundredths.
DefaultThreshold == 95

\* Values settings.cache_ttl (CACHE_TTL) may be given: 1800 s and 3600 s.
ConfiguredTtls == {DefaultTtl - 1, DefaultTtl}

\* The (provider, prompt) pairs the clients call get() and set() with.
Pairs ==
    {<<"groq", "Return 2+2">>, <<"groq", "Return 2 + 2">>,
     <<"groq", "What is 2+2?">>, <<"gemini", "Return 2 + 2">>}

\* The responses set() is called with for a (provider, prompt), each the
\* JSON-native part of a ModelResponse: either of the two for the first pair,
\* one of them for each of the others.
ResponsesFor(pr) ==
    LET answer == [error |-> None, text |-> "4"]
        failure == [error |-> "quota exceeded", text |-> ""]
    IN IF pr = <<"groq", "Return 2+2">> THEN {answer, failure}
       ELSE IF pr[1] = "groq" THEN {answer}
       ELSE {failure}

Nil == << >>

\* A key that never expires (a hash created by HSET alone).
Persistent == 0

\* hashlib.md5(prompt.encode()).hexdigest()
MD5(prompt) ==
    CASE prompt = "Return 2+2" -> "59f9f2db972b3e47a203293ec96d4201"
      [] prompt = "Return 2 + 2" -> "fd5226b45e02bb38b661270dd6cef6c7"
      [] prompt = "What is 2+2?" -> "936dbc8755f623c951d96ea2b03e13bc"

\* prompt_hash[:8]
Prefix8(prompt_hash) ==
    CASE prompt_hash = "59f9f2db972b3e47a203293ec96d4201" -> "59f9f2db"
      [] prompt_hash = "fd5226b45e02bb38b661270dd6cef6c7" -> "fd5226b4"
      [] prompt_hash = "936dbc8755f623c951d96ea2b03e13bc" -> "936dbc87"

\* f"cache:{provider}:exact:{prompt_hash}"
ExactKey(provider, prompt) == <<"cache", provider, "exact", MD5(prompt)>>

\* f"cache:{provider}:semantic:{prompt_hash[:8]}"
SemanticKey(provider, prompt) ==
    <<"cache", provider, "semantic", Prefix8(MD5(prompt))>>

NoKey == <<"", "", "", "">>

\* self.model.encode(text): a vector per prompt.  The first two prompts and
\* the last two are within the threshold of each other, the outer two not.
Encode(prompt) ==
    CASE prompt = "Return 2+2" -> <<10, 0>>
      [] prompt = "Return 2 + 2" -> <<10, 2>>
      [] prompt = "What is 2+2?" -> <<10, 5>>

\* np.dot(a, b) / (norm(a) * norm(b)), rounded down to hundredths.
CosineSimilarity(a, b) ==
    LET Dot(x, y) == x[1] * y[1] + x[2] * y[2]
        d == Dot(a, b)
        n == Dot(a, a) * Dot(b, b)
    IN IF d <= 0 THEN 0
       ELSE CHOOSE s \in 0..100 :
                /\ s * s * n <= 10000 * d * d
                /\ (s + 1) * (s + 1) * n > 10000 * d * d

\* Faulty variant of Better: any entry over the threshold replaces the best.
BetterIgnoresBest(similarity, best_similarity) ==
    similarity >= DefaultThreshold

\* similarity > best_similarity and similarity >= self.similarity_threshold
Better(similarity, best_similarity) ==
    similarity > best_similarity /\ similarity >= DefaultThreshold

\* json.dumps(response).encode('utf-8'): the tokens of the JSON text.
JsonDumps(response) ==
    LET JsonValue(v) == IF v = None THEN <<"null", "">> ELSE <<"string", v>>
    IN << <<"key", "error">>, JsonValue(response.error),
          <<"key", "text">>, JsonValue(response.text) >>

\* Faulty variant of JsonLoads: the error member is lost.
JsonLoadsTextOnly(bytes) ==
    [error |-> None,
     text |-> IF bytes[4][1] = "null" THEN None ELSE bytes[4][2]]

\* json.loads(response_bytes.decode('utf-8'))
JsonLoads(bytes) ==
    LET PyValue(token) == IF token[1] = "null" THEN None ELSE token[2]
    IN [error |-> PyValue(bytes[2]), text |-> PyValue(bytes[4])]

\* ------------------------------------------------------- Redis commands
Put(f, k, v) == [x \in DOMAIN f \cup {k} |-> IF x = k THEN v ELSE f[x]]

\* SETEX key ttl value
Setex(key, ttl, value) ==
    Put(strings, key, [expires |-> clock + ttl, value |-> value])

\* GET key
Get(key) == IF key \in DOMAIN strings THEN strings[key].value ELSE Nil

\* KEYS cache:{provider}:semantic:*
Keys(provider) ==
    {k \in DOMAIN hashes : k[2] = provider /\ k[3] = "semantic"}

\* HGET key field
HGet(key, field) == IF key \in DOMAIN hashes THEN hashes[key][field] ELSE Nil

\* What set() queues on its pipeline for the semantic entry.
Queued(key, prompt, embedding, response) ==
    << <<"hset", key, "prompt", <<prompt>>>>,
       <<"hset", key, "embedding", embedding>>,
       <<"hset", key, "response", JsonDumps(response)>>,
       <<"expire", key, "", <<DefaultTtl>>>> >>

\* The HSETs and EXPIREs of cmds applied, in order, to the hash keys h.
RECURSIVE ApplyCommands(_, _)
ApplyCommands(h, cmds) ==
    LET cmd == Head(cmds)
        key == cmd[2]
        old == IF key \in DOMAIN h THEN h[key]
               ELSE [embedding |-> Nil, expires |-> Persistent, prompt |-> Nil,
                     response |-> Nil]
        applied ==
            IF cmd[1] = "hset" THEN Put(h, key, [old EXCEPT ![cmd[3]] = cmd[4]])
            ELSE IF key \in DOMAIN h
            THEN Put(h, key, [old EXCEPT !.expires = clock + cmd[4][1]])
            ELSE h
    IN IF cmds = << >> THEN h ELSE ApplyCommands(applied, Tail(cmds))

\* Faulty variant of Batch: no transaction, one command per round trip.
BatchOfOne(queue) == 1

\* pipe.execute() of redis-py's default pipeline (MULTI/EXEC): the server
\* applies every queued command in one step.
Batch(queue) == Len(queue)

\* ------------------------------------------------------ get() and set()
\* What a call returned: get() a response or None, set() True or False;
\* the exception it caught on the way ("redis": of a Redis command, "encode":
\* of the embedding model, "": none), and whether the server has stayed as it
\* was since the call began.
Miss(caught, steady) ==
    [caught |-> caught, found |-> Nil, raises |-> FALSE, source |-> NoKey,
     steady |-> steady, stored |-> FALSE]

Hit(key, bytes, caught, steady) ==
    [caught |-> caught, found |-> <<JsonLoads(bytes)>>, raises |-> FALSE,
     source |-> key, steady |-> steady, stored |-> FALSE]

SetReturned(b, caught) ==
    [caught |-> caught, found |-> Nil, raises |-> FALSE, source |-> NoKey,
     steady |-> TRUE, stored |-> b]

\* Faulty variant of OnGetError: the exception leaves get().
GetErrorPropagates(steady) ==
    [caught |-> "", found |-> Nil, raises |-> TRUE, source |-> NoKey,
     steady |-> steady, stored |-> FALSE]

\* except Exception in get(): return None
OnGetError(steady) == Miss("redis", steady)

NoScan ==
    [best_match |-> NoKey, best_similarity |-> 0, caught |-> "", keys |-> {},
     matched |-> Nil, steady |-> TRUE]

\* The server changed: the get() calls that are running, and those that have
\* just returned, are no longer steady.
Unsteady(sc) ==
    [c \in Clients |->
        IF cache_pc[c] \in {"keys", "scan", "response", "got"}
        THEN [sc[c] EXCEPT !.steady = FALSE] ELSE sc[c]]

\* SemanticCache.__init__ in each process: Redis answered the ping or not,
\* the embedding model loaded or not (as flags allows); an empty server; the
\* processes that will call set() and get(); no call made.
CacheInit(setters, getters, flags) ==
    /\ redis_client \in flags
    /\ model \in flags
    /\ writers = setters
    /\ readers = getters
    /\ clock = 0
    /\ strings = << >>
    /\ hashes = << >>
    /\ cache_pc = [c \in Clients |-> "idle"]
    /\ cache_args = [c \in Clients |->
           [prompt |-> "", provider |-> "", response |-> Nil]]
    /\ scan = [c \in Clients |-> NoScan]
    /\ pipe = [c \in Clients |-> << >>]
    /\ issued = [c \in Clients |-> << >>]
    /\ ret = [c \in Clients |-> Miss("", TRUE)]
    /\ set_at = [pr \in Pairs |-> Nil]
    /\ nsets = 0

\* The cache as the other parts have it: never called.
CacheUnused == CacheInit({}, {}, {TRUE})

\* Faulty variant of Embeddings: the semantic tier runs without a model.
EmbeddingsWithoutModel == BOOLEAN

\* The embedding of the prompt can be had: the model is loaded and encode()
\* does not raise.
Embeddings == IF model THEN BOOLEAN ELSE {FALSE}

\* set() returns to its caller; rets is what the calls had returned.
SetReturns(c, outcome, rets) ==
    /\ ret' = [rets EXCEPT ![c] = outcome]
    /\ cache_pc' = [cache_pc EXCEPT ![c] = "was_set"]
    /\ pipe' = [pipe EXCEPT ![c] = << >>]

\* set(prompt, provider, response) up to and including SETEX.
CacheSet(c, prompt, provider, response, answered) ==
    LET pair == <<provider, prompt>> IN
    /\ c \in writers /\ cache_pc[c] = "idle"
    /\ nsets < MaxSets
    /\ nsets' = nsets + 1
    /\ cache_args' = [cache_args EXCEPT ![c] =
           [prompt |-> prompt, provider |-> provider,
            response |-> <<response>>]]
    /\ IF ~redis_client
       THEN /\ SetReturns(c, SetReturned(FALSE, ""), ret)
            /\ issued' = [issued EXCEPT ![c] = << >>]
            /\ UNCHANGED <<strings, set_at, scan>>
       ELSE IF ~answered
       THEN /\ SetReturns(c, SetReturned(FALSE, "redis"), ret)
            /\ issued' = [issued EXCEPT ![c] = <<"setex">>]
            /\ UNCHANGED <<strings, set_at, scan>>
       ELSE /\ scan' = Unsteady(scan)
            /\ strings' = Setex(ExactKey(provider, prompt), DefaultTtl,
                                JsonDumps(response))
            /\ issued' = [issued EXCEPT ![c] = <<"setex">>]
            /\ \E embedded \in Embeddings :
                 IF embedded
                 THEN /\ pipe' = [pipe EXCEPT ![c] =
                             Queued(SemanticKey(provider, prompt), prompt,
                                    Encode(prompt), response)]
                      /\ cache_pc' = [cache_pc EXCEPT ![c] = "pipeline"]
                      /\ set_at' = [set_at EXCEPT ![pair] = Nil]
                      /\ ret' = Unsteady(ret)
                 ELSE /\ SetReturns(c,
                             SetReturned(TRUE, IF model THEN "encode" ELSE ""),
                             Unsteady(ret))
                      /\ set_at' = [set_at EXCEPT ![pair] = <<clock, response>>]
    /\ UNCHANGED <<redis_client, model, clock, hashes, writers, readers>>
    /\ UNCHANGED <<orchVars, rlVars, sandboxVars, judgeVars, given, parsed>>

\* pipe.execute(): the queued HSETs and the EXPIRE reach the server.
SetPipeline(c, answered) ==
    LET n == Batch(pipe[c])
        rest == SubSeq(pipe[c], n + 1, Len(pipe[c]))
        pair == <<cache_args[c].provider, cache_args[c].prompt>>
    IN
    /\ cache_pc[c] = "pipeline"
    /\ issued' = [issued EXCEPT ![c] = Append(@, "execute")]
    /\ IF ~answered
       THEN /\ SetReturns(c, SetReturned(FALSE, "redis"), ret)
            /\ UNCHANGED <<hashes, set_at, scan>>
       ELSE /\ scan' = Unsteady(scan)
            /\ hashes' = ApplyCommands(hashes, SubSeq(pipe[c], 1, n))
            /\ IF rest = << >>
               THEN /\ SetReturns(c, SetReturned(TRUE, ""), Unsteady(ret))
                    /\ set_at' = [set_at EXCEPT ![pair] =
                           <<clock, cache_args[c].response[1]>>]
               ELSE /\ pipe' = [pipe EXCEPT ![c] = rest]
                    /\ ret' = Unsteady(ret)
                    /\ UNCHANGED <<cache_pc, set_at>>
    /\ UNCHANGED <<redis_client, model, clock, strings, cache_args, nsets,
                   writers, readers>>
    /\ UNCHANGED <<orchVars, rlVars, sandboxVars, judgeVars, given, parsed>>

\* get() returns to its caller.
GetReturns(c, outcome) ==
    /\ ret' = [ret EXCEPT ![c] = outcome]
    /\ cache_pc' = [cache_pc EXCEPT ![c] = "got"]
    /\ scan' = [scan EXCEPT ![c] = NoScan]

\* get(prompt, provider) up to and including GET of the exact key, and the
\* embedding of the prompt when that missed.
CacheGet(c, prompt, provider, answered) ==
    LET key == ExactKey(provider, prompt) IN
    /\ c \in readers /\ cache_pc[c] = "idle"
    /\ cache_args' = [cache_args EXCEPT ![c] =
           [prompt |-> prompt, provider |-> provider, response |-> Nil]]
    /\ IF ~redis_client
       THEN /\ issued' = [issued EXCEPT ![c] = << >>]
            /\ GetReturns(c, Miss("", TRUE))
       ELSE /\ issued' = [issued EXCEPT ![c] = <<"get">>]
            /\ IF ~answered THEN GetReturns(c, OnGetError(TRUE))
               ELSE IF Get(key) # Nil
               THEN GetReturns(c, Hit(key, Get(key), "", TRUE))
               ELSE \E embedded \in Embeddings :
                      IF embedded
                      THEN /\ cache_pc' = [cache_pc EXCEPT ![c] = "keys"]
                           /\ scan' = [scan EXCEPT ![c] = NoScan]
                           /\ UNCHANGED ret
                      ELSE GetReturns(c, Miss(IF model THEN "encode" ELSE "",
                                              TRUE))
    /\ UNCHANGED <<redis_client, model, clock, strings, hashes,
                   pipe, set_at, nsets, writers, readers>>
    /\ UNCHANGED <<orchVars, rlVars, sandboxVars, judgeVars, given, parsed>>

\* keys = self.redis_client.keys(pattern)
GetKeys(c, answered) ==
    LET keys == Keys(cache_args[c].provider) IN
    /\ cache_pc[c] = "keys"
    /\ issued' = [issued EXCEPT ![c] = Append(@, "keys")]
    /\ IF ~answered THEN GetReturns(c, OnGetError(scan[c].steady))
       ELSE IF keys = {} THEN GetReturns(c, Miss("", scan[c].steady))
       ELSE /\ cache_pc' = [cache_pc EXCEPT ![c] = "scan"]
            /\ scan' = [scan EXCEPT ![c].keys = keys]
            /\ UNCHANGED ret
    /\ UNCHANGED <<redis_client, model, clock, strings, hashes,
                   cache_args, pipe, set_at, nsets, writers, readers>>
    /\ UNCHANGED <<orchVars, rlVars, sandboxVars, judgeVars, given, parsed>>

\* One pass of "for key in keys": HGET of the embedding, the similarity, the
\* best match so far.  A command that raises is skipped by the inner except.
GetEmbedding(c, key, answered) ==
    LET s == scan[c]
        bytes == IF answered THEN HGet(key, "embedding") ELSE Nil
        similarity == CosineSimilarity(Encode(cache_args[c].prompt), bytes)
        better == bytes # Nil /\ Better(similarity, s.best_similarity)
        best == IF better THEN key ELSE s.best_match
        left == s.keys \ {key}
        caught == IF answered THEN s.caught ELSE "redis"
    IN
    /\ cache_pc[c] = "scan"
    /\ key \in s.keys
    /\ issued' = [issued EXCEPT ![c] = Append(@, "hget")]
    /\ IF left = {} /\ best = NoKey THEN GetReturns(c, Miss(caught, s.steady))
       ELSE /\ scan' = [scan EXCEPT ![c] =
                   [best_match |-> best,
                    best_similarity |->
                        IF better THEN similarity ELSE s.best_similarity,
                    caught |-> caught,
                    keys |-> left,
                    matched |-> IF better THEN HGet(key, "response") ELSE s.matched,
                    steady |-> s.steady]]
            /\ cache_pc' = [cache_pc EXCEPT ![c] =
                   IF left = {} THEN "response" ELSE "scan"]
            /\ UNCHANGED ret
    /\ UNCHANGED <<redis_client, model, clock, strings, hashes,
                   cache_args, pipe, set_at, nsets, writers, readers>>
    /\ UNCHANGED <<orchVars, rlVars, sandboxVars, judgeVars, given, parsed>>

\* response_bytes = self.redis_client.hget(best_match, b"response")
GetResponse(c, answered) ==
    LET key == scan[c].best_match
        bytes == HGet(key, "response")
    IN
    /\ cache_pc[c] = "response"
    /\ issued' = [issued EXCEPT ![c] = Append(@, "hget")]
    /\ IF ~answered THEN GetReturns(c, OnGetError(scan[c].steady))
       ELSE IF bytes # Nil
       THEN GetReturns(c, Hit(key, bytes, scan[c].caught, scan[c].steady))
       ELSE GetReturns(c, Miss(scan[c].caught, scan[c].steady))
    /\ UNCHANGED <<redis_client, model, clock, strings, hashes,
                   cache_args, pipe, set_at, nsets, writers, readers>>
    /\ UNCHANGED <<orchVars, rlVars, sandboxVars, judgeVars, given, parsed>>

\* ------------------------------------------------------ the Redis server
\* The server's clock advances; keys whose expiry it reaches are gone.
CacheTick ==
    /\ clock < MaxClock
    /\ clock' = clock + 1
    /\ LET Expired(entry) ==
               entry.expires # Persistent /\ entry.expires <= clock + 1
           Kept(f) == [k \in {x \in DOMAIN f : ~Expired(f[x])} |-> f[k]]
       IN strings' = Kept(strings) /\ hashes' = Kept(hashes)
    /\ scan' = Unsteady(scan)
    /\ ret' = Unsteady(ret)
    /\ UNCHANGED <<redis_client, model, cache_pc, cache_args, pipe, issued,
                   set_at, nsets, writers, readers>>
    /\ UNCHANGED <<orchVars, rlVars, sandboxVars, judgeVars, given, parsed>>

\* The caller has what the call returned and goes on.
CallerProceeds(c) ==
    /\ cache_pc[c] \in {"got", "was_set"}
    /\ cache_pc' = [cache_pc EXCEPT ![c] = "idle"]
    /\ cache_args' = [cache_args EXCEPT ![c] =
           [prompt |-> "", provider |-> "", response |-> Nil]]
    /\ issued' = [issued EXCEPT ![c] = << >>]
    /\ ret' = [ret EXCEPT ![c] = Miss("", TRUE)]
    /\ UNCHANGED <<redis_client, model, clock, strings, hashes, scan, pipe,
                   set_at, nsets, writers, readers>>
    /\ UNCHANGED <<orchVars, rlVars, sandboxVars, judgeVars, given, parsed>>

\* The calls of the processes, their Redis commands answered or not as
\* answers allows.
CacheCalls(answers) ==
    \/ \E c \in Clients, pr \in Pairs, answered \in answers :
          \E response \in ResponsesFor(pr) :
              CacheSet(c, pr[2], pr[1], response, answered)
    \/ \E c \in Clients, answered \in answers : SetPipeline(c, answered)
    \/ \E c \in Clients, pr \in Pairs, answered \in answers :
          CacheGet(c, pr[2], pr[1], answered)
    \/ \E c \in Clients, answered \in answers : GetKeys(c, answered)
    \/ \E c \in Clients, pr \in Pairs, answered \in answers :
          GetEmbedding(c, SemanticKey(pr[1], pr[2]), answered)
    \/ \E c \in Clients, answered \in answers : GetResponse(c, answered)
    \/ \E c \in Clients : CallerProceeds(c)

\* A command sent to the server is answered, or raises (connection lost).
Cache == CacheCalls(BOOLEAN) \/ CacheTick

\* ------------------------------------------------------ sandbox backends
\* SandboxExecutor (Docker) and SubprocessExecutor.  execute_code starts the
\* program of a code block, waits for it up to the timeout and returns an
\* ExecutionResult.  Texts are strings; execution_time is left out.
MaxExecs == 2          \* execute_code calls made one after the other

\* settings.sandbox_timeout = 30 s, in ticks of 15 s.
SandboxTimeout == 2

\* Languages of the code blocks handed to execute_code.
Languages == {"python", "shell", "ruby"}

\* The keys of SandboxExecutor.IMAGES.
IMAGES == {"python", "javascript", "bash"}

\* The keys of commands in SubprocessExecutor._get_exec_command.
Commands == {"python", "javascript", "bash", "shell"}

\* str(e) of the exceptions met.
Str(e) ==
    CASE e = "_ensure_image" -> "Failed to build Docker image"
      [] e = "containers.run" -> "500 Server Error"
      [] e = "ContainerError" -> "Command returned non-zero exit status 1"
      [] e = "logs" -> "404 Client Error"
      [] e = "wait" -> "Read timed out. (read timeout=30)"
      [] e = "create_subprocess_exec" -> "No such file or directory: 'python3'"

\* f"Unsupported language: {language}"
UnsupportedLanguage(language) ==
    CASE language = "python" -> "Unsupported language: python"
      [] language = "shell" -> "Unsupported language: shell"
      [] language = "ruby" -> "Unsupported language: ruby"

\* f"Execution failed: {e}"
ExecutionFailed(message) ==
    CASE message = "Failed to build Docker image"
             -> "Execution failed: Failed to build Docker image"
      [] message = "500 Server Error" -> "Execution failed: 500 Server Error"
      [] message = "404 Client Error" -> "Execution failed: 404 Client Error"
      [] message = "Read timed out. (read timeout=30)"
             -> "Execution failed: Read timed out. (read timeout=30)"

\* f"Execution timed out after {timeout}s", timeout being 30.
TimedOutAfter == "Execution timed out after 30s"

\* What the program wrote before it exited with the status.
Stdout(status) == IF status = 0 THEN "4" ELSE ""

Stderr(status) == IF status = 0 THEN "" ELSE "Traceback"

\* The call returned the ExecutionResult r.
Gives(r) == [raises |-> FALSE, value |-> <<r>>]

\* execute_code, language not in self.IMAGES
DockerUnsupported(language) ==
    [error |-> CASE language = "shell"
                        -> "Language 'shell' is not supported for execution"
                 [] language = "ruby"
                        -> "Language 'ruby' is not supported for execution",
     exit_code |-> -1,
     stderr |-> UnsupportedLanguage(language), stdout |-> "", success |-> FALSE]

\* _execute_sync: the container exited and its logs were read
DockerCompleted(status) ==
    [error |-> IF status = 0 THEN None ELSE Stderr(status),
     exit_code |-> status, stderr |-> Stderr(status), stdout |-> Stdout(status),
     success |-> status = 0]

\* _execute_sync, except docker.errors.ContainerError: exit_code is the
\* exception's exit_status, which docker sets to the non-zero status.
DockerContainerError(e) ==
    [error |-> "Container error: Command returned non-zero exit status 1",
     exit_code |-> 1, stderr |-> Str(e),
     stdout |-> "", success |-> FALSE]

\* _execute_sync, except Exception
DockerFailed(e) ==
    [error |-> ExecutionFailed(Str(e)), exit_code |-> -1, stderr |-> Str(e),
     stdout |-> "", success |-> FALSE]

\* process.returncode or 0
ReturncodeOr0(returncode) == IF returncode = 0 THEN 0 ELSE returncode

\* SubprocessExecutor.execute_code: communicate() returned
SubprocessCompleted(returncode) ==
    [error |-> IF returncode = 0 THEN None ELSE "Non-zero exit code",
     exit_code |-> ReturncodeOr0(returncode), stderr |-> Stderr(returncode),
     stdout |-> Stdout(returncode), success |-> returncode = 0]

\* Faulty variant of SubprocessFailed: the failure carries exit code 0.
SubprocessFailedExitZero(message) ==
    [error |-> message, exit_code |-> 0, stderr |-> message, stdout |-> "",
     success |-> FALSE]

\* SubprocessExecutor.execute_code, except Exception
SubprocessFailed(message) ==
    [error |-> message, exit_code |-> 1, stderr |-> message, stdout |-> "",
     success |-> FALSE]

\* Faulty variant of OnTimeoutError: the timeout leaves execute_code.
TimeoutErrorPropagates == [raises |-> TRUE, value |-> << >>]

\* except asyncio.TimeoutError: raise SandboxError(...), caught by the outer
\* except Exception
OnTimeoutError == Gives(SubprocessFailed(TimedOutAfter))

\* Verifier.verify_execution
VerifyExecution(r) == r.success /\ r.exit_code = 0

\* main.py startup: SandboxExecutor, or SubprocessExecutor when Docker is
\* not to be had; the cleanup setting either way; no call running.
SandboxInit ==
    /\ sb_backend \in {"docker", "subprocess"}
    /\ cleanup_containers \in BOOLEAN
    /\ sb_pc = "idle"
    /\ sb_language = ""
    /\ temp_file = "none"
    /\ container = "none"
    /\ process = "none"
    /\ sb_status = 0
    /\ sb_elapsed = 0
    /\ timed_out = FALSE
    /\ sb_outcome = [raises |-> FALSE, value |-> << >>]
    /\ nexec = 0
    /\ left_running = 0

\* The sandbox as the other parts have it: never called.
SandboxUnused == SandboxInit /\ sb_backend = "docker" /\ cleanup_containers

\* execute_code returns (or raises) to its caller.
SandboxReturns(outcome) ==
    /\ sb_outcome' = outcome
    /\ sb_pc' = "returned"

\* Faulty variant of DockerFinally: the container is never removed.
DockerFinallyKeepsContainer(state) ==
    /\ temp_file' = "deleted"
    /\ container' = state

\* finally of _execute_sync: os.unlink(temp_file), and container.remove
\* (force=True) if there is a container and settings.cleanup_containers.
DockerFinally(state) ==
    /\ temp_file' = "deleted"
    /\ container' = IF state # "none" /\ cleanup_containers
                    THEN "removed" ELSE state

\* SandboxExecutor.execute_code up to containers.run(detach=True).
DockerExecuteCode(language, start) ==
    /\ sb_backend = "docker" /\ sb_pc = "idle"
    /\ nexec < MaxExecs
    /\ nexec' = nexec + 1
    /\ sb_language' = language
    /\ IF language \notin IMAGES
       THEN /\ SandboxReturns(Gives(DockerUnsupported(language)))
            /\ UNCHANGED <<temp_file, container>>
       ELSE IF start = "_ensure_image"
       THEN /\ SandboxReturns(Gives(DockerFailed(start)))
            /\ UNCHANGED <<temp_file, container>>
       ELSE IF start = "containers.run"
       THEN /\ DockerFinally("none")
            /\ SandboxReturns(Gives(DockerFailed(start)))
       ELSE IF start = "ContainerError"
       THEN /\ DockerFinally("none")
            /\ SandboxReturns(Gives(DockerContainerError(start)))
       ELSE /\ temp_file' = "exists"
            /\ container' = "running"
            /\ sb_pc' = "waiting"
            /\ UNCHANGED sb_outcome
    /\ UNCHANGED <<sb_backend, cleanup_containers, process, sb_status,
                   sb_elapsed, timed_out, left_running>>
    /\ UNCHANGED <<orchVars, rlVars, cacheVars, judgeVars, given, parsed>>

\* The program in the container ends by itself, with the StatusCode.
ContainerExits(status) ==
    /\ sb_pc = "waiting" /\ container = "running"
    /\ container' = "exited"
    /\ sb_status' = status
    /\ UNCHANGED <<sb_backend, cleanup_containers, sb_pc, sb_language, temp_file,
                   process, sb_elapsed, timed_out, sb_outcome, nexec,
                   left_running>>
    /\ UNCHANGED <<orchVars, rlVars, cacheVars, judgeVars, given, parsed>>

\* container.wait(timeout=timeout) returns; the logs are read (or reading
\* them raises); finally.
DockerWaitReturns(logs) ==
    /\ sb_pc = "waiting" /\ container = "exited"
    /\ DockerFinally(container)
    /\ SandboxReturns(Gives(IF logs THEN DockerCompleted(sb_status)
                            ELSE DockerFailed("logs")))
    /\ UNCHANGED <<sb_backend, cleanup_containers, sb_language, process,
                   sb_status, sb_elapsed, timed_out, nexec, left_running>>
    /\ UNCHANGED <<orchVars, rlVars, cacheVars, judgeVars, given, parsed>>

\* container.wait(timeout=timeout) raises: the container has not exited.
DockerWaitTimesOut ==
    /\ sb_pc = "waiting" /\ container = "running"
    /\ sb_elapsed = SandboxTimeout
    /\ timed_out' = TRUE
    /\ DockerFinally(container)
    /\ SandboxReturns(Gives(DockerFailed("wait")))
    /\ UNCHANGED <<sb_backend, cleanup_containers, sb_language, process,
                   sb_status, sb_elapsed, nexec, left_running>>
    /\ UNCHANGED <<orchVars, rlVars, cacheVars, judgeVars, given, parsed>>

\* SubprocessExecutor.execute_code up to create_subprocess_exec.
SubprocessExecuteCode(language, start) ==
    /\ sb_backend = "subprocess" /\ sb_pc = "idle"
    /\ nexec < MaxExecs
    /\ nexec' = nexec + 1
    /\ sb_language' = language
    /\ IF language \notin Commands
       THEN /\ temp_file' = "deleted"
            /\ SandboxReturns(Gives(SubprocessFailed(UnsupportedLanguage(language))))
            /\ UNCHANGED process
       ELSE IF start = "create_subprocess_exec"
       THEN /\ temp_file' = "deleted"
            /\ SandboxReturns(Gives(SubprocessFailed(Str(start))))
            /\ UNCHANGED process
       ELSE /\ temp_file' = "exists"
            /\ process' = "running"
            /\ sb_pc' = "waiting"
            /\ UNCHANGED sb_outcome
    /\ UNCHANGED <<sb_backend, cleanup_containers, container, sb_status,
                   sb_elapsed, timed_out, left_running>>
    /\ UNCHANGED <<orchVars, rlVars, cacheVars, judgeVars, given, parsed>>

\* The child ends by itself or by a signal: returncode is its exit status or
\* minus the signal's number, never None once communicate() returns.
ChildExits(returncode) ==
    /\ sb_pc = "waiting" /\ process = "running"
    /\ process' = "exited"
    /\ sb_status' = returncode
    /\ UNCHANGED <<sb_backend, cleanup_containers, sb_pc, sb_language, temp_file,
                   container, sb_elapsed, timed_out, sb_outcome, nexec,
                   left_running>>
    /\ UNCHANGED <<orchVars, rlVars, cacheVars, judgeVars, given, parsed>>

\* wait_for(process.communicate(), timeout) returns; finally.
CommunicateReturns ==
    /\ sb_pc = "waiting" /\ process = "exited"
    /\ temp_file' = "deleted"
    /\ SandboxReturns(Gives(SubprocessCompleted(sb_status)))
    /\ UNCHANGED <<sb_backend, cleanup_containers, sb_language, container,
                   process, sb_status, sb_elapsed, timed_out, nexec,
                   left_running>>
    /\ UNCHANGED <<orchVars, rlVars, cacheVars, judgeVars, given, parsed>>

\* wait_for raises asyncio.TimeoutError: the child has not finished.
WaitForTimesOut ==
    /\ sb_pc = "waiting" /\ process = "running"
    /\ sb_elapsed = SandboxTimeout
    /\ timed_out' = TRUE
    /\ process' = "killed"
    /\ temp_file' = "deleted"
    /\ SandboxReturns(OnTimeoutError)
    /\ UNCHANGED <<sb_backend, cleanup_containers, sb_language, container,
                   sb_status, sb_elapsed, nexec, left_running>>
    /\ UNCHANGED <<orchVars, rlVars, cacheVars, judgeVars, given, parsed>>

\* Time passes while the call waits for the program.
SandboxTick ==
    /\ sb_pc = "waiting"
    /\ sb_elapsed < SandboxTimeout
    /\ sb_elapsed' = sb_elapsed + 1
    /\ UNCHANGED <<sb_backend, cleanup_containers, sb_pc, sb_language, temp_file,
                   container, process, sb_status, timed_out, sb_outcome, nexec,
                   left_running>>
    /\ UNCHANGED <<orchVars, rlVars, cacheVars, judgeVars, given, parsed>>

\* The caller has the result and goes on; what the call left behind stays.
SandboxCallerProceeds ==
    /\ sb_pc = "returned"
    /\ sb_pc' = "idle"
    /\ sb_language' = ""
    /\ temp_file' = "none"
    /\ container' = "none"
    /\ process' = "none"
    /\ sb_status' = 0
    /\ sb_elapsed' = 0
    /\ timed_out' = FALSE
    /\ sb_outcome' = [raises |-> FALSE, value |-> << >>]
    /\ left_running' = IF container = "running" THEN left_running + 1
                       ELSE left_running
    /\ UNCHANGED <<sb_backend, cleanup_containers, nexec>>
    /\ UNCHANGED <<orchVars, rlVars, cacheVars, judgeVars, given, parsed>>

Sandbox ==
    \/ \E language \in Languages,
          start \in {"runs", "_ensure_image", "containers.run", "ContainerError"} :
          DockerExecuteCode(language, start)
    \/ \E status \in {0, 1, 137} : ContainerExits(status)
    \/ \E logs \in BOOLEAN : DockerWaitReturns(logs)
    \/ DockerWaitTimesOut
    \/ \E language \in Languages, start \in {"runs", "create_subprocess_exec"} :
          SubprocessExecuteCode(language, start)
    \/ \E returncode \in {0, 1, -9} : ChildExits(returncode)
    \/ CommunicateReturns
    \/ WaitForTimesOut
    \/ SandboxTick
    \/ SandboxCallerProceeds

\* ------------------------------------------------- Verifier, Synthesizer
\* Scores are counted in 300ths, so that successes/total and latency/100
\* are whole numbers: 1.0 is 300, 0.8 is 240, 0.5 is 150, 0.2 is 60.

\* str.strip() on the outputs that occur below.
Strip(stdout) ==
    CASE stdout = "4\n" -> "4"
      [] stdout = " 5" -> "5"
      [] OTHER -> stdout

\* Faulty variant of ScoreResult: the sum is not capped at 1.0.
ScoreResultUncapped(model_response) ==
    IF model_response.error # None THEN 0
    ELSE IF model_response.execution_results = << >>
    THEN (IF model_response.text # EmptyText THEN 150 ELSE 0)
    ELSE LET total == Len(model_response.execution_results)
             successful == Cardinality({i \in 1..total :
                               VerifyExecution(model_response.execution_results[i])})
             base_score == (300 * successful) \div total
             latency_bonus == IF 60 - 3 * model_response.latency > 0
                              THEN 60 - 3 * model_response.latency ELSE 0
         IN base_score + latency_bonus

\* Faulty variant of ScoreResult: the error of the response is not looked at.
ScoreResultIgnoresError(model_response) ==
    IF model_response.execution_results = << >>
    THEN (IF model_response.text # EmptyText THEN 150 ELSE 0)
    ELSE LET total == Len(model_response.execution_results)
             successful == Cardinality({i \in 1..total :
                               VerifyExecution(model_response.execution_results[i])})
             base_score == (300 * successful) \div total
             latency_bonus == IF 60 - 3 * model_response.latency > 0
                              THEN 60 - 3 * model_response.latency ELSE 0
         IN Min(300, base_score + latency_bonus)

\* Verifier.score_result
ScoreResult(model_response) ==
    IF model_response.error # None THEN 0
    ELSE IF model_response.execution_results = << >>
    THEN (IF model_response.text # EmptyText THEN 150 ELSE 0)
    ELSE LET total == Len(model_response.execution_results)
             successful == Cardinality({i \in 1..total :
                               VerifyExecution(model_response.execution_results[i])})
             base_score == (300 * successful) \div total
             latency_bonus == IF 60 - 3 * model_response.latency > 0
                              THEN 60 - 3 * model_response.latency ELSE 0
         IN Min(300, base_score + latency_bonus)

\* Faulty variant of CheckConsensus: the outputs of the first response are
\* compared with the first output of the second response only.
CheckConsensusOfFirst(resps) ==
    IF Len(resps) < 2 THEN FALSE
    ELSE LET at == {a \in (1..2) \X (1..2) :
                       /\ a[2] <= Len(resps[a[1]].execution_results)
                       /\ a[1] = 2 => a[2] = 1
                       /\ VerifyExecution(resps[a[1]].execution_results[a[2]])}
             output(a) == Strip(resps[a[1]].execution_results[a[2]].stdout)
         IN IF at = {} THEN FALSE
            ELSE \A a \in at, b \in at : output(a) = output(b)

\* Faulty variant of CheckConsensus: any verified output makes a consensus.
CheckConsensusAnyOutput(resps) ==
    IF Len(resps) < 2 THEN FALSE
    ELSE \E r \in 1..Len(resps) : \E i \in 1..Len(resps[r].execution_results) :
            VerifyExecution(resps[r].execution_results[i])

\* Verifier.check_consensus: outputs holds the stripped stdout of every
\* verified result, response by response; `at` is where they come from.
CheckConsensus(resps) ==
    IF Len(resps) < 2 THEN FALSE
    ELSE LET at == {a \in UNION {{<<r, i>> : i \in 1..Len(resps[r].execution_results)} :
                                  r \in 1..Len(resps)} :
                       VerifyExecution(resps[a[1]].execution_results[a[2]])}
             output(a) == Strip(resps[a[1]].execution_results[a[2]].stdout)
             first == CHOOSE a \in at :
                         \A b \in at : a[1] < b[1] \/ (a[1] = b[1] /\ a[2] <= b[2])
         IN IF at = {} THEN FALSE
            ELSE \A a \in at : output(a) = output(first)

\* Faulty variant of Synthesize: the score is looked at before the consensus.
SynthesizeScoreFirst(resps, flag) ==
    IF Len(resps) = 0
    THEN [best_score |-> 0, consensus |-> FALSE, scores |-> << >>,
          selected_response |-> << >>, successful_executions |-> 0,
          synthesis_strategy |-> "no_responses", total_executions |-> 0,
          verified |-> FALSE]
    ELSE LET at == UNION {{<<r, i>> : i \in 1..Len(resps[r].execution_results)} :
                            r \in 1..Len(resps)}
             successful == Cardinality({a \in at :
                               VerifyExecution(resps[a[1]].execution_results[a[2]])})
             has_consensus == CheckConsensus(resps)
             score == [r \in 1..Len(resps) |-> ScoreResult(resps[r])]
             best == CHOOSE r \in 1..Len(resps) :
                        \A q \in 1..Len(resps) :
                            score[q] < score[r] \/ (score[q] = score[r] /\ r <= q)
         IN [best_score |-> score[best],
             consensus |-> has_consensus,
             scores |-> score,
             selected_response |-> <<resps[best]>>,
             successful_executions |-> successful,
             synthesis_strategy |->
                 IF score[best] >= 240 THEN "high_confidence"
                 ELSE IF has_consensus THEN "consensus"
                 ELSE IF score[best] >= 150 THEN "best_available"
                 ELSE "fallback",
             total_executions |-> Cardinality(at),
             verified |-> flag /\ successful > 0]

\* Faulty variant of Synthesize: of equal scores the last one is selected.
SynthesizeLastOfTies(resps, flag) ==
    IF Len(resps) = 0
    THEN [best_score |-> 0, consensus |-> FALSE, scores |-> << >>,
          selected_response |-> << >>, successful_executions |-> 0,
          synthesis_strategy |-> "no_responses", total_executions |-> 0,
          verified |-> FALSE]
    ELSE LET at == UNION {{<<r, i>> : i \in 1..Len(resps[r].execution_results)} :
                            r \in 1..Len(resps)}
             successful == Cardinality({a \in at :
                               VerifyExecution(resps[a[1]].execution_results[a[2]])})
             has_consensus == CheckConsensus(resps)
             score == [r \in 1..Len(resps) |-> ScoreResult(resps[r])]
             best == CHOOSE r \in 1..Len(resps) :
                        \A q \in 1..Len(resps) :
                            score[q] < score[r] \/ (score[q] = score[r] /\ q <= r)
         IN [best_score |-> score[best],
             consensus |-> has_consensus,
             scores |-> score,
             selected_response |-> <<resps[best]>>,
             successful_executions |-> successful,
             synthesis_strategy |->
                 IF has_consensus THEN "consensus"
                 ELSE IF score[best] >= 240 THEN "high_confidence"
                 ELSE IF score[best] >= 150 THEN "best_available"
                 ELSE "fallback",
             total_executions |-> Cardinality(at),
             verified |-> flag /\ successful > 0]

\* Synthesizer.synthesize: the selected response (nothing for None) and the
\* fields of the VerificationReport.  The sort is stable and descending, so
\* scored_responses[0] is the first response of highest score.
Synthesize(resps, flag) ==
    IF Len(resps) = 0
    THEN [best_score |-> 0, consensus |-> FALSE, scores |-> << >>,
          selected_response |-> << >>, successful_executions |-> 0,
          synthesis_strategy |-> "no_responses", total_executions |-> 0,
          verified |-> FALSE]
    ELSE LET at == UNION {{<<r, i>> : i \in 1..Len(resps[r].execution_results)} :
                            r \in 1..Len(resps)}
             successful == Cardinality({a \in at :
                               VerifyExecution(resps[a[1]].execution_results[a[2]])})
             has_consensus == CheckConsensus(resps)
             score == [r \in 1..Len(resps) |-> ScoreResult(resps[r])]
             best == CHOOSE r \in 1..Len(resps) :
                        \A q \in 1..Len(resps) :
                            score[q] < score[r] \/ (score[q] = score[r] /\ r <= q)
         IN [best_score |-> score[best],
             consensus |-> has_consensus,
             scores |-> score,
             selected_response |-> <<resps[best]>>,
             successful_executions |-> successful,
             synthesis_strategy |->
                 IF has_consensus THEN "consensus"
                 ELSE IF score[best] >= 240 THEN "high_confidence"
                 ELSE IF score[best] >= 150 THEN "best_available"
                 ELSE "fallback",
             total_executions |-> Cardinality(at),
             verified |-> flag /\ successful > 0]

\* A call of synthesize is about to be made with these arguments.
JudgeInit(list, flags) ==
    /\ responses = list
    /\ verify \in flags
    /\ synthesized = << >>

\* synthesize(responses, verify) returns.
SynthesizeCall ==
    /\ synthesized = << >>
    /\ synthesized' = <<Synthesize(responses, verify)>>
    /\ UNCHANGED <<responses, verify>>
    /\ UNCHANGED <<orchVars, rlVars, cacheVars, sandboxVars, given, parsed>>

\* ------------------------------------------------------ specifications
Init ==
    /\ OrchInit /\ sandbox_available \in BOOLEAN
    /\ RLInit /\ CacheUnused /\ SandboxUnused
    /\ JudgeInit(<< >>, {TRUE}) /\ ExtractorUnused

\* One request through the /api/v1/inference endpoint.
Next == FanOut \/ Pipeline

Spec == Init /\ [][Next]_vars

\* The endpoint from the moment run_inference has returned: the first two
\* providers answered, each with one or with two executable blocks, any
\* further provider failed.
InitHealing ==
    /\ \E config \in {"CodeExecutionConfig", None} :
          request = [execute_code |-> TRUE, execution_config |-> config,
                     prompt |-> "Return 2+2"]
    /\ stage = "gathered"
    /\ task = [p \in Providers |-> "done"]
    /\ call = [p \in Providers |-> IF p <= 2 THEN "returned" ELSE "raised"]
    /\ \E answer \in [{1, 2} -> {<<Prose, Fence("py", "print(x)")>>,
                                  <<Fence("py", "print(x)"), Fence("sh", "echo 4")>>}] :
          results = [p \in Providers |->
                       IF p <= 2 THEN <<Returned(SuccessResponse(p, answer[p]))>>
                       ELSE <<OutcomeOnFailure(p)>>]
    /\ finished = [i \in 1..NumProviders |-> i]
    /\ model_responses = CollectResponses(GatherResults(results, finished))
    /\ http = NoAnswer
    /\ cursor = <<1, 1>>
    /\ acquired = [p \in Providers |-> FALSE]
    /\ prev = NoPrev
    /\ nreq = 1
    /\ executed = << >>
    /\ healing = << >>
    /\ invoked = [p \in Providers |-> 1]
    /\ attempts = [p \in Providers |-> IF p <= 2 THEN 1 ELSE StopAfterAttempt(p)]
    /\ sandbox_available = TRUE
    /\ RLInit /\ CacheUnused /\ SandboxUnused
    /\ JudgeInit(<< >>, {TRUE}) /\ ExtractorUnused

SpecHealing == InitHealing /\ [][Pipeline]_vars

\* One run_inference, with the attempts of each adapter shown one by one.
SpecRetry == Init /\ [][FanOut \/ \E p \in Providers : AttemptFails(p)]_vars

\* Every list of at most MaxLen blocks with at most MaxLen pieces of code in
\* all, each block with any of the tags: none, three words, and one that is
\* no word.
InitExtractor ==
    /\ OrchInit /\ sandbox_available = TRUE
    /\ RLInit /\ CacheUnused /\ SandboxUnused
    /\ JudgeInit(<< >>, {TRUE})
    /\ \E n \in 0..MaxLen :
       \E tags \in [1..n -> {"", "py", "sh", "rust", "c++"}] :
       \E lens \in [1..n -> 0..MaxLen] :
          LET RECURSIVE before(_)
              before(i) == IF i = 1 THEN 0 ELSE before(i - 1) + lens[i - 1]
              total == before(n + 1)
          IN  /\ total <= MaxLen
              /\ \E flat \in [1..total -> {"tick", "\n", " ", "+", "x"}] :
                    LET list == [i \in 1..n |->
                                    CodeBlock(tags[i],
                                              SubSeq(flat, before(i) + 1,
                                                     before(i) + lens[i]))]
                    IN  /\ \A i \in 1..n : \A j \in 1..(lens[i] - 1) :
                              ~(list[i].code[j] = "x" /\ list[i].code[j + 1] = "x")
                        /\ given = list
    /\ parsed = << >>

SpecExtractor == InitExtractor /\ [][ExtractCall]_vars

\* InferenceManager.run_inference called again and again.
NextOrch == FanOut \/ NextCall

SpecOrch == Init /\ [][NextOrch]_vars

\* Concurrent acquire() calls on one AsyncRateLimiter.
InitRL ==
    /\ OrchInit /\ sandbox_available = TRUE
    /\ RLInit /\ CacheUnused /\ SandboxUnused
    /\ JudgeInit(<< >>, {TRUE}) /\ ExtractorUnused

NextRL == RateLimiter

SpecRL == InitRL /\ [][NextRL]_vars

\* The same under the event loop's scheduling: a coroutine that is ready (its
\* sleep is over, or the lock was handed to it) runs, and time advances.
SpecRLFair ==
    /\ SpecRL
    /\ WF_vars(Tick)
    /\ \A c \in Callers : WF_vars(WaiterResumes(c)) /\ WF_vars(WakeUp(c))

\* One process calling get() and set(), with or without Redis and the model.
InitCache ==
    /\ OrchInit /\ sandbox_available = TRUE
    /\ RLInit /\ CacheInit({1}, {1}, BOOLEAN) /\ SandboxUnused
    /\ JudgeInit(<< >>, {TRUE}) /\ ExtractorUnused

SpecCache == InitCache /\ [][Cache]_vars

\* A writing and a reading process on one Redis server that answers every
\* command, over a stretch of time in which no key expires.
InitShared ==
    /\ OrchInit /\ sandbox_available = TRUE
    /\ RLInit /\ CacheInit({1}, {2}, {TRUE}) /\ SandboxUnused
    /\ JudgeInit(<< >>, {TRUE}) /\ ExtractorUnused

SpecShared == InitShared /\ [][CacheCalls({TRUE})]_vars

\* One sandbox backend, called by the endpoint one code block at a time.
InitSandbox ==
    /\ OrchInit /\ sandbox_available = TRUE
    /\ RLInit /\ CacheUnused /\ SandboxInit
    /\ JudgeInit(<< >>, {TRUE}) /\ ExtractorUnused

SpecSandbox == InitSandbox /\ [][Sandbox]_vars

\* synthesize called with up to one response per provider: with or without
\* an error, a text and results, answered fast or slowly; the results ran
\* well (printing 4, 4 and a newline, or 5 after a blank) or failed.
InitJudge ==
    /\ OrchInit /\ sandbox_available = TRUE
    /\ RLInit /\ CacheUnused /\ SandboxUnused /\ ExtractorUnused
    /\ LET r4 == ExecOk
           r4n == [ExecOk EXCEPT !.stdout = "4\n"]
           r5 == [ExecOk EXCEPT !.stdout = " 5"]
           f == ExecNameError
           ran == {<<r4>>, <<r4n>>, <<r5>>, <<f>>, <<r4, r4n>>, <<r4, r5>>,
                   <<r4, f>>, <<f, r4>>, <<f, f>>}
           with(resp, rs) ==
               [resp EXCEPT !.code_blocks = [i \in 1..Len(rs) |-> CodeBlock("python", "print(4)")],
                            !.execution_results = rs]
           shapes ==
               {ModelResponse(1, t, l, None) : t \in {EmptyText, <<Prose>>}, l \in {-10, 1, 30}}
               \cup {with(ModelResponse(1, <<Prose>>, l, None), rs) : l \in {-10, 1, 30}, rs \in ran}
               \cup {ModelResponse(1, EmptyText, 1, "failed"),
                     with(ModelResponse(1, <<Prose>>, 1, "failed"), <<r4>>)}
       IN \E n \in 0..NumProviders : \E shape \in [1..n -> shapes] :
              JudgeInit([p \in 1..n |-> [shape[p] EXCEPT !.provider = ProviderNames[p]]],
                        BOOLEAN)

SpecJudge == InitJudge /\ [][SynthesizeCall]_vars

\* ---------------------------------------------------------------- claims
IsErrorResponse(r) == r.error # None

ResultOf(p) == results[p][1]

C2_ConfiguredOrder ==
    stage = "gathered" =>
        \A i \in 1..Len(model_responses) :
            i <= NumProviders /\ model_responses[i].provider = ProviderNames[i]

C2_Witness ==
    /\ stage = "gathered"
    /\ Len(finished) = NumProviders
    /\ finished[1] = NumProviders
    /\ model_responses[1].provider = ProviderNames[1]

ErrorResponseIsBare(r) ==
    IsErrorResponse(r) =>
        (r.text = EmptyText /\ r.code_blocks = << >> /\ r.execution_results = << >>)

C4_ErrorResponsesBare ==
    /\ \A p \in Providers :
         (results[p] # << >> /\ ResultOf(p).isinstance = "ModelResponse") =>
             ErrorResponseIsBare(ResultOf(p).value)
    /\ \A i \in 1..Len(model_responses) : ErrorResponseIsBare(model_responses[i])

C4_Witness ==
    /\ stage = "responded"
    /\ request.execute_code
    /\ \E i, j \in 1..Len(model_responses) :
         /\ IsErrorResponse(model_responses[i])
         /\ model_responses[j].execution_results # << >>
         /\ model_responses[j].code_blocks[1].code = "print(4)"

\* C5: when every configured provider fails the endpoint answers 503 "All LLM
\* providers failed", and it answers 503 only when no provider response is
\* usable.
AllProvidersFailed == \A p \in Providers : results[p] # << >> /\ ~Succeeded(p)

C5_AllFailedIs503 ==
    stage = "responded" =>
        /\ AllProvidersFailed =>
              (http.status = 503 /\ http.detail = "All LLM providers failed")
        /\ http.status = 503 => AllProvidersFailed

\* C6: no provider call is issued without a preceding acquire() on that
\* provider's rate limiter.
C6_AcquireBeforeCall ==
    \A p \in Providers : call[p] # "none" => acquired[p]

\* C7: when run_inference succeeded for (provider, prompt) and the same prompt
\* is submitted again, the second run does not call that provider's
\* generate_completion and its ModelResponse has latency 0.
C7_SecondRunFromCache ==
    \A p \in Providers :
        (stage \in {"fanout", "gathered"} /\ request.prompt = prev.prompt /\ p \in prev.ok) =>
            /\ call[p] = "none"
            /\ results[p] # << >> => ResultOf(p).value.latency = 0

\* The tokens in the bucket at time s, after the acquires that returned by
\* then: what the last of them left, refilled since, capped at max_rate.
PresentAt(s) ==
    LET before == {i \in 1..Len(log) : log[i].time <= s} IN
    IF before = {} THEN Capacity
    ELSE LET i == CHOOSE k \in before : \A m \in before : m <= k IN
         Min(Capacity, log[i].left + (s - log[i].time))

CompletedAfter(s) == Cardinality({j \in 1..Len(log) : log[j].time > s})

\* C8: each return of acquire() consumes exactly one whole token that was
\* available; the acquires completed in any interval never exceed the tokens
\* present at its start plus the tokens refilled during it; so K acquires that
\* start on an empty bucket cannot all have returned before (K-1) refill
\* periods (60/R seconds each) have passed.
C8_TokenAccounting ==
    /\ \A i \in 1..Len(log) :
         /\ log[i].before >= TicksPerToken
         /\ log[i].left = log[i].before - TicksPerToken
    /\ \A s \in 0..now :
         CompletedAfter(s) * TicksPerToken <= PresentAt(s) + (now - s)
    /\ \A i, j \in 1..Len(log) :
         (i < j /\ log[i].left = 0) =>
             log[j].time - log[i].time >= (j - i - 1) * TicksPerToken

C8_Witness ==
    \E i \in 1..Len(log) :
        /\ log[i].left = 0
        /\ Len(log) >= i + 2
        /\ log[i + 2].time - log[i].time = 2 * TicksPerToken

\* C9: concurrent acquire() calls are serialised: a caller suspended inside
\* acquire() waiting for refill holds the lock, so at most one caller is inside
\* at a time, and while it is inside nobody else reads or updates tokens and
\* last_update: they stay as the sleeper left them when it computed its wait.
C9_MutualExclusion ==
    /\ \A c \in Callers : rl_pc[c] = "sleeping" => lock_holder = c
    /\ lock_holder # 0 => rl_pc[lock_holder] = "sleeping"
    /\ \A i \in 1..Len(waiters) : rl_pc[waiters[i]] = "waiting"
    /\ \A c \in Callers :
         rl_pc[c] = "sleeping" =>
            (tokens < TicksPerToken /\ wake_at[c] = last_update + WaitTime(tokens))

C9_Witness ==
    \E c, d, e \in Callers :
        /\ rl_pc[c] = "sleeping" /\ lock_holder = c
        /\ Len(waiters) >= 1 /\ waiters[1] = d
        /\ rl_pc[e] = "done"
        /\ now >= wake_at[c]

\* C10: in every reachable state 0 <= tokens <= max_rate: the refill never
\* raises tokens above max_rate and acquire never drives them below zero.
C10_TokensInRange ==
    /\ 0 <= tokens /\ tokens <= Capacity
    /\ \A i \in 1..Len(log) : 0 <= log[i].left /\ log[i].before <= Capacity

C10_Witness ==
    /\ tokens = 0
    /\ \E i \in 2..Len(log) :
         /\ log[i].before = Capacity
         /\ log[i - 1].left + (log[i].time - log[i - 1].time) > Capacity

\* ------------------------------------------------- claims on SemanticCache
\* The (provider, prompt) a process called get() or set() with.
PairOf(c) == <<cache_args[c].provider, cache_args[c].prompt>>

\* get() of process c has returned and the store answered all it was asked.
GetAnswered(c) ==
    /\ cache_pc[c] = "got"
    /\ redis_client
    /\ ret[c].caught = ""

\* A set() of that (provider, prompt) returned True at this very time, and no
\* later set() of it has begun.
JustSet(pr) == set_at[pr] # Nil /\ set_at[pr][1] = clock

\* C11: after a set(prompt, provider, response) that returned True, an
\* immediate get(prompt, provider) on an available store returns a response
\* equal to the one stored.
C11_RoundTrip ==
    \A c \in Clients :
        GetAnswered(c) /\ JustSet(PairOf(c))
            => ret[c].found = <<set_at[PairOf(c)][2]>>

\* A response with an error member was stored and has been read back.
C11_Witness ==
    \E c \in Clients :
        /\ GetAnswered(c) /\ JustSet(PairOf(c))
        /\ ret[c].found # Nil
        /\ ret[c].found[1].error # None

\* The call of process c has returned.
CallReturned(c) == cache_pc[c] \in {"got", "was_set"}

\* The store was unavailable to the call of process c: there was no
\* connection at construction, or the first command the call sent raised.
Unavailable(c) ==
    \/ ~redis_client
    \/ ret[c].caught = "redis" /\ Len(issued[c]) = 1

C13_ExactOnly ==
    ~model =>
        /\ hashes = << >>
        /\ \A c \in Clients :
              /\ cache_pc[c] \in {"idle", "got", "was_set"}
              /\ cache_pc[c] = "was_set" /\ redis_client /\ ret[c].caught = ""
                    => /\ ret[c].stored
                       /\ issued[c] = <<"setex">>
                       /\ JustSet(PairOf(c)) =>
                             /\ ExactKey(PairOf(c)[1], PairOf(c)[2])
                                     \in DOMAIN strings
                             /\ strings[ExactKey(PairOf(c)[1], PairOf(c)[2])]
                                  = [expires |-> clock + DefaultTtl,
                                     value |->
                                        JsonDumps(cache_args[c].response[1])]
              /\ GetAnswered(c)
                    => /\ issued[c] = <<"get">>
                       /\ ret[c].steady =>
                             ret[c].found =
                               IF Get(ExactKey(PairOf(c)[1], PairOf(c)[2])) = Nil
                               THEN Nil
                               ELSE <<JsonLoads(
                                   Get(ExactKey(PairOf(c)[1], PairOf(c)[2])))>>

\* Without a model a set() returned True and a get() of the prompt hit.
C13_Witness ==
    \E c \in Clients :
        /\ ~model /\ GetAnswered(c) /\ ret[c].steady
        /\ ret[c].found # Nil
        /\ issued[c] = <<"get">>
        /\ DOMAIN strings # {}

\* C14: a semantic entry is on the server with its prompt, embedding, response
\* and expiry all there, or not at all: no process sees part of one.
C14_EntryWhole ==
    \A k \in DOMAIN hashes :
        /\ hashes[k].prompt # Nil
        /\ hashes[k].embedding # Nil
        /\ hashes[k].response # Nil
        /\ hashes[k].expires # Persistent

\* The writer's pipeline executed between two commands of a reader's get().
C14_Witness ==
    \E w \in writers, r \in readers :
        /\ w # r
        /\ cache_pc[r] \in {"scan", "response"}
        /\ ~scan[r].steady
        /\ cache_pc[w] = "was_set" /\ ret[w].stored
        /\ SemanticKey(PairOf(w)[1], PairOf(w)[2]) \in DOMAIN hashes

\* The similarity of the prompt of process c to the semantic entry at key.
SimilarityTo(c, key) ==
    CosineSimilarity(Encode(cache_args[c].prompt), HGet(key, "embedding"))

\* The semantic entries of the provider that are within the threshold.
Candidates(c) ==
    {k \in Keys(cache_args[c].provider) :
        HGet(k, "embedding") # Nil /\ SimilarityTo(c, k) >= DefaultThreshold}

\* C15: get() returns the exact-match entry when there is one, having sent
\* the one GET; otherwise, with a model, the response of a semantic entry of the provider whose similarity
\* is the highest and at least the threshold; otherwise None.
C15_Lookup ==
    \A c \in Clients :
        GetAnswered(c) /\ ret[c].steady =>
            LET key == ExactKey(PairOf(c)[1], PairOf(c)[2]) IN
            IF Get(key) # Nil
            THEN /\ ret[c].source = key
                 /\ ret[c].found = <<JsonLoads(Get(key))>>
                 /\ issued[c] = <<"get">>
            ELSE IF ~model \/ Candidates(c) = {}
            THEN ret[c].found = Nil
            ELSE /\ ret[c].source \in Candidates(c)
                 /\ \A k \in Candidates(c) :
                        SimilarityTo(c, ret[c].source) >= SimilarityTo(c, k)
                 /\ ret[c].found = <<JsonLoads(HGet(ret[c].source, "response"))>>

\* Two semantic entries were within the threshold and get() returned one.
C15_Witness ==
    \E c \in Clients :
        /\ GetAnswered(c) /\ ret[c].steady
        /\ Get(ExactKey(PairOf(c)[1], PairOf(c)[2])) = Nil
        /\ Cardinality(Candidates(c)) = 2
        /\ ret[c].source \in Candidates(c)

\* C16: an entry lives for the configured cache_ttl: whatever value of
\* ConfiguredTtls the setting has, a get() before that much time has passed
\* since the set() returns the entry, and a get() after it does not.
C16_LivesForConfiguredTtl ==
    \A ttl \in ConfiguredTtls, c \in Clients :
        GetAnswered(c) /\ ret[c].steady /\ set_at[PairOf(c)] # Nil =>
            LET pr == PairOf(c)
                written == set_at[pr][1]
            IN IF clock < written + ttl
               THEN ret[c].found = <<set_at[pr][2]>>
               ELSE ret[c].source
                        \notin {ExactKey(pr[1], pr[2]), SemanticKey(pr[1], pr[2])}

\* ---------------------------------------------------- claims on the sandbox
\* The call has returned an ExecutionResult.
HasResult == sb_pc = "returned" /\ ~sb_outcome.raises /\ sb_outcome.value # << >>

ExecResult == sb_outcome.value[1]

\* C17: every ExecutionResult either backend returns, on every path, has
\* success true exactly when exit_code is 0 (so verify_execution is success).
C17_SuccessIffExitZero ==
    HasResult =>
        /\ ExecResult.success <=> ExecResult.exit_code = 0
        /\ VerifyExecution(ExecResult) <=> ExecResult.success

\* A call returned a failure built by an except branch.
C17_Witness ==
    /\ HasResult
    /\ sb_backend = "subprocess"
    /\ ~ExecResult.success
    /\ ExecResult.stdout = "" /\ ExecResult.stderr # "Traceback"

\* C18: a call of the container backend whose wait ran out returns a result
\* with success false, exit_code -1 and an "Execution failed" error, and its
\* container does not keep running.
C18_TimeoutKillsContainer ==
    sb_backend = "docker" /\ sb_pc = "returned" /\ timed_out =>
        /\ HasResult
        /\ ~ExecResult.success
        /\ ExecResult.exit_code = -1
        /\ ExecResult.error = ExecutionFailed(Str("wait"))
        /\ container # "running"

\* C19: a call of the subprocess backend whose wait ran out has killed the
\* child and returns, without raising, a result with success false whose
\* stderr names the timeout.
C19_TimeoutIsFailedResult ==
    sb_backend = "subprocess" /\ sb_pc = "returned" /\ timed_out =>
        /\ process = "killed"
        /\ HasResult
        /\ ~ExecResult.success
        /\ ExecResult.stderr = TimedOutAfter

\* The subprocess backend returned after its wait ran out.
C19_Witness ==
    /\ sb_backend = "subprocess" /\ sb_pc = "returned" /\ timed_out
    /\ sb_elapsed = SandboxTimeout
    /\ HasResult

\* The languages the backend in use runs.
Supported == IF sb_backend = "docker" THEN IMAGES ELSE Commands

\* C20: for a language the backend does not run, execute_code returns a
\* result with success false, exit_code -1 and stderr "Unsupported language:
\* X", whichever the backend.
C20_UnsupportedLanguage ==
    sb_pc = "returned" /\ sb_language \notin Supported =>
        /\ HasResult
        /\ ~ExecResult.success
        /\ ExecResult.exit_code = -1
        /\ ExecResult.stderr = UnsupportedLanguage(sb_language)

C22_ResultsAligned ==
    \A r \in 1..Len(model_responses) :
        LET response == model_responses[r] IN
        /\ Len(response.execution_results) <= Len(response.code_blocks)
        /\ \A i \in 1..Len(response.execution_results) :
              /\ r \in DOMAIN executed
              /\ i \in DOMAIN executed[r]
              /\ executed[r][i] = <<response.code_blocks[i], response.execution_results[i]>>

\* Healing is over; a block was replaced by a fix whose re-execution failed.
C22_Witness ==
    /\ stage = "synthesis"
    /\ \E h \in 1..Len(healing) :
          LET response == model_responses[healing[h][1]]
              i == healing[h][2]
          IN /\ HealCode(healing[h][3]) # None
             /\ response.code_blocks[i].code = HealCode(healing[h][3])
             /\ ~response.execution_results[i].success

\* C23: each call of the healer is for a (response, index) it was not called
\* for before in this request, and the result at that index has failed with
\* a non-empty stderr.
C23_HealedAtMostOnce ==
    [][Len(healing') > Len(healing) =>
         LET h == healing'[Len(healing')]
             result == model_responses[h[1]].execution_results[h[2]]
         IN /\ ~result.success
            /\ result.stderr # ""
            /\ \A k \in 1..Len(healing) :
                  <<healing[k][1], healing[k][2]>> # <<h[1], h[2]>>]_vars

\* Healing is over after a single call of the healer, although the fix it
\* gave failed again with an error on stderr.
C23_Witness ==
    /\ stage = "synthesis"
    /\ Len(healing) = 1
    /\ LET response == model_responses[healing[1][1]]
           i == healing[1][2]
       IN /\ response.code_blocks[i].code = HealCode(healing[1][3])
          /\ ~response.execution_results[i].success
          /\ response.execution_results[i].stderr # ""

\* C24: a step in which the healer gave a fix and the fix was re-executed
\* puts the new block and its result at the healed index, and changes no
\* other index of that response and no other response.
C24_ReplacedInPlace ==
    [][(/\ Len(healing') > Len(healing)
        /\ HealCode(healing'[Len(healing')][3]) # None
        /\ request.execution_config # None) =>
         LET h == healing'[Len(healing')]
             ran == executed'[h[1]][h[2]]
         IN /\ ran[1].code = HealCode(h[3])
            /\ model_responses' =
                 [model_responses EXCEPT ![h[1]].code_blocks[h[2]] = ran[1],
                                         ![h[1]].execution_results[h[2]] = ran[2]]]_vars

\* The second block of a response was healed and its fix ran well; the first
\* block of that response is the one the provider wrote.
C24_Witness ==
    \E h \in 1..Len(healing) :
        LET response == model_responses[healing[h][1]] IN
        /\ healing[h][2] = 2
        /\ HealCode(healing[h][3]) # None
        /\ response.code_blocks[2].code = HealCode(healing[h][3])
        /\ response.execution_results[2].success
        /\ response.code_blocks[1] = CodeBlock("python", "print(x)")
        /\ ~response.execution_results[1].success

\* C25: a heal step whose provider call raised, or whose reply was empty or
\* had no executable block, or whose re-execution raised, changes no response;
\* and a request that went through healing is answered with status 200.
C25_FailedHealingKeepsOriginal ==
    /\ [][(/\ Len(healing') > Len(healing)
           /\ LET reply == healing'[Len(healing')][3] IN
              \/ reply.raises
              \/ reply.text = EmptyText
              \/ FilterExecutableBlocks(ExtractCodeBlocks(reply.text)) = << >>
              \/ request.execution_config = None) =>
            model_responses' = model_responses]_vars
    /\ []((stage = "responded" /\ healing # << >>) => http.status = 200)

\* The request was answered with 200 after the healer's provider call had
\* raised: the failing block and its result are the original ones.
C25_Witness ==
    /\ stage = "responded"
    /\ http.status = 200
    /\ \E h \in 1..Len(healing) :
          LET response == model_responses[healing[h][1]]
              i == healing[h][2]
          IN /\ healing[h][3].raises
             /\ response.code_blocks[i] = CodeBlock("python", "print(x)")
             /\ response.execution_results[i] = ExecNameError

\* C26: the block that a heal step re-executes and stores at the healed index
\* is the first executable block of the healer's reply, with the language of
\* its own fence.
C26_FixKeepsItsLanguage ==
    [][(/\ Len(healing') > Len(healing)
        /\ ~healing'[Len(healing')][3].raises
        /\ FilterExecutableBlocks(ExtractCodeBlocks(healing'[Len(healing')][3].text)) # << >>
        /\ request.execution_config # None) =>
         LET h == healing'[Len(healing')]
             candidate == FilterExecutableBlocks(ExtractCodeBlocks(h[3].text))[1]
         IN /\ executed'[h[1]][h[2]][1] = candidate
            /\ model_responses'[h[1]].code_blocks[h[2]] = candidate]_vars

\* C27: every score that synthesize computed lies between 0 and 1 (300
\* 300ths); it is 0 for a response with an error, 0.5 for a response without
\* results whose text is not empty, and 1 for a response whose executions all
\* succeeded, whatever its latency.
C27_ScoreInRange ==
    synthesized # << >> =>
        \A k \in 1..Len(responses) :
            LET r == responses[k]
                score == synthesized[1].scores[k]
            IN /\ score \in 0..300
               /\ r.error # None => score = 0
               /\ (r.error = None /\ r.execution_results = << >> /\ r.text # EmptyText)
                     => score = 150
               /\ (/\ r.error = None
                   /\ r.execution_results # << >>
                   /\ \A i \in 1..Len(r.execution_results) : r.execution_results[i].success)
                     => score = 300

\* A response that answered in no time, and whose two executions succeeded,
\* was given the score 1.
C27_Witness ==
    /\ synthesized # << >>
    /\ \E k \in 1..Len(responses) :
          /\ responses[k].error = None
          /\ responses[k].latency <= 0
          /\ Len(responses[k].execution_results) = 2
          /\ \A i \in 1..2 : responses[k].execution_results[i].success
          /\ synthesized[1].scores[k] = 300

\* Where the executions that succeeded sit in a list of responses.
SuccessfulAt(resps) ==
    {a \in UNION {{<<r, i>> : i \in 1..Len(resps[r].execution_results)} :
                    r \in 1..Len(resps)} :
        resps[a[1]].execution_results[a[2]].success}

\* C28: the consensus that synthesize took from check_consensus is true
\* exactly when at least two executions succeeded, over all responses, and
\* the trimmed outputs of all that succeeded are equal.
C28_ConsensusNeedsTwoOutputs ==
    (synthesized # << >> /\ responses # << >>) =>
        (synthesized[1].consensus <=>
            /\ Cardinality(SuccessfulAt(responses)) >= 2
            /\ \A a \in SuccessfulAt(responses), b \in SuccessfulAt(responses) :
                  Strip(responses[a[1]].execution_results[a[2]].stdout)
                    = Strip(responses[b[1]].execution_results[b[2]].stdout))

\* The lists that hold the responses of resps in some order, each response
\* holding its results in some order.
Rearranged(resps) ==
    LET n == Len(resps)
        Orders(m) == {f \in [1..m -> 1..m] : \A i \in 1..m, j \in 1..m : f[i] = f[j] => i = j}
        Inner == {g \in [1..n -> UNION {Orders(Len(resps[k].execution_results)) : k \in 1..n}] :
                     \A k \in 1..n : DOMAIN g[k] = 1..Len(resps[k].execution_results)}
    IN {[k \in 1..n |->
           [resps[f[k]] EXCEPT !.execution_results =
               [i \in 1..Len(resps[f[k]].execution_results) |->
                    resps[f[k]].execution_results[g[f[k]][i]]]]] :
          f \in Orders(n), g \in Inner}

\* C29: check_consensus gives, for every rearrangement of the responses and
\* of the results inside each response, the answer it gave synthesize.
C29_ConsensusSymmetric ==
    (synthesized # << >> /\ responses # << >>) =>
        \A list \in Rearranged(responses) :
            CheckConsensus(list) = synthesized[1].consensus

\* Consensus was found between a response with two results, of which the
\* second ran well, and another response.
C29_Witness ==
    /\ synthesized # << >>
    /\ Len(responses) >= 2
    /\ synthesized[1].consensus
    /\ Len(responses[1].execution_results) = 2
    /\ ~responses[1].execution_results[1].success
    /\ responses[1].execution_results[2].success
    /\ responses[2].execution_results # << >>
    /\ Cardinality(Rearranged(responses)) >= 4

\* C30: synthesize answers "no_responses" and selects nothing exactly for
\* the empty list; otherwise its strategy is the first that applies of
\* "consensus" (check_consensus holds), "high_confidence" (best score at
\* least 0.8), "best_available" (at least 0.5) and "fallback"; and the report
\* says consensus exactly when the strategy is "consensus".
C30_StrategyByFirstMatch ==
    synthesized # << >> =>
        LET report == synthesized[1]
            best_score == CHOOSE x \in {ScoreResult(responses[k]) : k \in 1..Len(responses)} :
                             \A k \in 1..Len(responses) : ScoreResult(responses[k]) <= x
        IN /\ report.synthesis_strategy = "no_responses" <=> responses = << >>
           /\ report.selected_response = << >> <=> responses = << >>
           /\ responses # << >> =>
                 report.synthesis_strategy =
                     IF CheckConsensus(responses) THEN "consensus"
                     ELSE IF best_score >= 240 THEN "high_confidence"
                     ELSE IF best_score >= 150 THEN "best_available"
                     ELSE "fallback"
           /\ report.consensus <=> report.synthesis_strategy = "consensus"

\* The responses agree and the best of them scores 1: the strategy reported
\* is "consensus", the first of the two that apply.
C30_Witness ==
    /\ synthesized # << >>
    /\ responses # << >>
    /\ CheckConsensus(responses)
    /\ synthesized[1].best_score = 300
    /\ synthesized[1].synthesis_strategy = "consensus"
    /\ synthesized[1].consensus

\* C31: for a list that is not empty, the response synthesize selected has
\* the highest score, no response before it in the list has that score, and
\* the best_score reported is its score.
C31_SelectedIsFirstArgmax ==
    (synthesized # << >> /\ responses # << >>) =>
        \E k \in 1..Len(responses) :
            /\ synthesized[1].selected_response = <<responses[k]>>
            /\ \A q \in 1..Len(responses) :
                  /\ ScoreResult(responses[q]) <= ScoreResult(responses[k])
                  /\ ScoreResult(responses[q]) = ScoreResult(responses[k]) => k <= q
            /\ synthesized[1].best_score = ScoreResult(responses[k])

\* Two responses share the highest score, which is not zero: the first of
\* them was selected.
C31_Witness ==
    /\ synthesized # << >>
    /\ Len(responses) >= 2
    /\ ScoreResult(responses[1]) = ScoreResult(responses[2])
    /\ ScoreResult(responses[1]) > 0
    /\ responses[1] # responses[2]
    /\ synthesized[1].selected_response = <<responses[1]>>

C33_At(blocks, kept) ==
    [j \in 1..Cardinality(kept) |->
        blocks[CHOOSE k \in kept : Cardinality({m \in kept : m < k}) = j - 1]]

C34_Normalised(tag) ==
    CASE tag = "" -> "unknown"
      [] tag = "py" -> "python"
      [] tag = "sh" -> "bash"
      [] OTHER -> tag

\* The blocks the claim expects back.
C34_Expected == [i \in 1..Len(given) |->
                    [code |-> given[i].code, language |-> C34_Normalised(given[i].language)]]

\* A block the round trip keeps: its tag is absent or one word, its code
\* neither starts nor ends with white space, does not end with a backtick and
\* holds no three backticks in a row.
C34_Clean(block) ==
    /\ block.language # "c++"
    /\ block.code # << >> =>
          /\ block.code[1] \notin {" ", "\n"}
          /\ block.code[Len(block.code)] \notin {" ", "\n", "tick"}
    /\ \A j \in 1..(Len(block.code) - 2) :
          ~(block.code[j] = "tick" /\ block.code[j + 1] = "tick" /\ block.code[j + 2] = "tick")

\* C34 as stated: any list of blocks, written out as fenced blocks and
\* extracted again, comes back with the same code, the normalised languages
\* and the same order.
C34_RoundTrip == parsed # << >> => parsed[1] = C34_Expected

\* C34 as amended: a list of blocks whose tags are absent or words and whose
\* code has no white space at its ends, no backtick at its end and no three
\* backticks in a row comes back with the same code, the normalised languages
\* and the same order.
C34_RoundTripOfCleanBlocks ==
    (parsed # << >> /\ \A i \in 1..Len(given) : C34_Clean(given[i]))
        => parsed[1] = C34_Expected

\* Two clean blocks, tagged py and untagged, were written out and extracted.
C34_Witness ==
    /\ parsed # << >>
    /\ Len(given) = 2
    /\ given[1].language = "py" /\ given[2].language = ""
    /\ given[1].code = <<"x">> /\ given[2].code = <<"+">>
    /\ Len(parsed[1]) = 2
    /\ parsed[1][1].language = "python" /\ parsed[1][2].language = "unknown"

\* C35: every heal_code call goes to a configured adapter, the one whose name
\* is the provider of the response being healed and whose task produced that
\* response; no other adapter carries that name.
C35_HealedByItsOwnProvider ==
    \A h \in 1..Len(healing) :
        LET response == model_responses[healing[h][1]]
            p == healing[h][4]
        IN  /\ p \in Providers
            /\ ProviderNames[p] = response.provider
            /\ results[p] # << >>
            /\ results[p][1].value.provider = response.provider
            /\ results[p][1].value.text = response.text
            /\ \A q \in Providers \ {p} : ProviderNames[q] # response.provider

\* Blocks of the first and of the second response were healed, each by the
\* adapter of its response.
C35_Witness ==
    \E h1 \in 1..Len(healing), h2 \in 1..Len(healing) :
        /\ healing[h1][1] = 1 /\ healing[h2][1] = 2
        /\ healing[h1][4] # healing[h2][4]
        /\ ProviderNames[healing[h2][4]] = model_responses[2].provider

\* C36: an acquire() call that is blocked, on the lock or asleep, returns in
\* the end, unless the clock has stopped with less than one token refilled;
\* and of two callers queued for the lock, the one behind neither returns nor
\* gets the lock while the one ahead is still queued.
C36_NoStarvationFifo ==
    /\ \A c \in Callers :
          (rl_pc[c] \in {"waiting", "sleeping"})
             ~> (\/ rl_pc[c] = "done"
                 \/ now = MaxTime /\ tokens + (now - last_update) < TicksPerToken)
    /\ [][\A i \in 1..Len(waiters) : \A j \in (i + 1)..Len(waiters) :
             /\ rl_pc'[waiters[j]] = "waiting"
             /\ \E k \in 1..Len(waiters') : waiters'[k] = waiters[j]
             /\ \A k \in 1..Len(waiters') : \A l \in 1..Len(waiters') :
                   (waiters'[k] = waiters[i] /\ waiters'[l] = waiters[j]) => k < l]_vars

\* Two callers queued for the lock one after the other have both returned,
\* the first of them before the second.
C36_Witness ==
    \E a \in 1..Len(log), b \in 1..Len(log) :
        /\ a < b
        /\ log[a].caller = 3 /\ log[b].caller = 4
        /\ log[a].time < log[b].time
        /\ \E first \in 1..Len(log) : first < a /\ log[first].time < log[a].time

\* C37: a get() that returns a semantic hit returns the response that was
\* stored in the entry when get() read the embedding that matched: the
\* response written by the same set() as that embedding.
C37_HitIsOfOneSet ==
    [][\A c \in Clients :
          (/\ cache_pc[c] = "response" /\ cache_pc'[c] = "got"
           /\ ret'[c].found # Nil)
             => /\ scan[c].matched # Nil
                /\ ret'[c].found[1].error = (IF scan[c].matched[2][1] = "null" THEN None
                                             ELSE scan[c].matched[2][2])
                /\ ret'[c].found[1].text = (IF scan[c].matched[4][1] = "null" THEN None
                                            ELSE scan[c].matched[4][2])]_vars

\* C38 as stated: with verify true and a response without error in the list,
\* the selected response has no error.
C38_NoErrorSelected ==
    (/\ synthesized # << >> /\ verify
     /\ \E r \in 1..Len(responses) : responses[r].error = None)
        => synthesized[1].selected_response[1].error = None

\* C38 as amended: with verify true and a response without error whose score
\* is above 0 in the list, the selected response has no error.
C38_NoErrorSelectedOverScore ==
    (/\ synthesized # << >> /\ verify
     /\ \E r \in 1..Len(responses) :
           responses[r].error = None /\ synthesized[1].scores[r] > 0)
        => synthesized[1].selected_response[1].error = None

\* A failed response came first and a response without error second: the
\* second was selected.
C38_Witness ==
    /\ synthesized # << >> /\ verify
    /\ Len(responses) = 2
    /\ responses[1].error # None /\ responses[2].error = None
    /\ synthesized[1].scores[2] > 0
    /\ synthesized[1].selected_response = <<responses[2]>>

\* The successful executions of a response: success and exit code 0.
C39_Successes(resp) ==
    {i \in 1..Len(resp.execution_results) :
        resp.execution_results[i].success /\ resp.execution_results[i].exit_code = 0}

\* The trimmed stdout of the successful executions of the responses.
C39_Outputs ==
    UNION {{Strip(responses[r].execution_results[i].stdout) :
               i \in C39_Successes(responses[r])} : r \in 1..Len(responses)}

\* C39 as stated: under strategy "consensus" the selected response holds a
\* successful execution whose trimmed stdout is the agreed output.
C39_SelectedHoldsConsensus ==
    (synthesized # << >> /\ synthesized[1].synthesis_strategy = "consensus")
        => LET selected == synthesized[1].selected_response[1] IN
           \E i \in C39_Successes(selected) :
               C39_Outputs = {Strip(selected.execution_results[i].stdout)}

\* C39 as amended: under strategy "consensus" one output is agreed on, every
\* successful execution of the selected response has it as its trimmed
\* stdout, and the selected response holds such an execution when its score
\* is above 0.5.
C39_SelectedAgreesWithConsensus ==
    (synthesized # << >> /\ synthesized[1].synthesis_strategy = "consensus")
        => LET selected == synthesized[1].selected_response[1] IN
           /\ Cardinality(C39_Outputs) = 1
           /\ \A i \in C39_Successes(selected) :
                 C39_Outputs = {Strip(selected.execution_results[i].stdout)}
           /\ synthesized[1].best_score > 150 => C39_Successes(selected) # {}

\* Consensus on the output 4 of two responses, the selected one among them.
C39_Witness ==
    /\ synthesized # << >>
    /\ synthesized[1].synthesis_strategy = "consensus"
    /\ synthesized[1].best_score > 150
    /\ Len(responses) = 2
    /\ C39_Successes(responses[1]) # {} /\ C39_Successes(responses[2]) # {}
    /\ C39_Outputs = {"4"}

\* C40: while the request has execute_code false, every response has no code
\* block and no execution result, nothing was executed and no healing call
\* was made.
C40_NothingRunsWithoutExecuteCode ==
    (stage # "idle" /\ ~request.execute_code) =>
        /\ \A i \in 1..Len(model_responses) :
              /\ model_responses[i].code_blocks = << >>
              /\ model_responses[i].execution_results = << >>
        /\ \A i \in 1..Len(executed) : executed[i] = << >>
        /\ healing = << >>

\* A request with execute_code false was answered with 200 while a provider
\* had replied with a fenced python block and the sandbox was there.
C40_Witness ==
    /\ stage = "responded" /\ http.status = 200
    /\ ~request.execute_code
    /\ sandbox_available
    /\ \E i \in 1..Len(model_responses) :
          /\ model_responses[i].error = None
          /\ \E k \in 1..Len(model_responses[i].text) :
                /\ model_responses[i].text[k].fence
                /\ model_responses[i].text[k].lang \in {"py", "python"}

====
